---- MODULE Spec2Model ----
(***************************************************************************)
(* A model of the intraday high/low breakout backtester                    *)
(* (src/entropy_best_conf.js, the version that starts at line 2308):       *)
(* backtest -> analyzeTradingDay -> simulateTrade.                         *)
(*                                                                         *)
(* Numbers.  The code works on JavaScript doubles; the model works on      *)
(* exact integers.  A price is an integer number of 1/10000 of the         *)
(* currency unit, so the tick 0.05 is 500 and every candle price of the    *)
(* model is a multiple of 100 (a multiple of 0.01).  Percentages are whole *)
(* numbers, the brokerage fee is in 1/100 of a percent, and money amounts  *)
(* (profits, fees) are kept multiplied by MoneyScale so that the fee       *)
(* amount * brokerageFeePercent / 100 is an integer.                       *)
(*                                                                         *)
(* Candles.  A day is an array of candles read one after the other.  The   *)
(* candle at index i carries the timestamp Timestamp(i): one candle a      *)
(* minute, starting before noon and running into the afternoon, so both    *)
(* branches of the AM/PM conversion are taken.                             *)
(***************************************************************************)
EXTENDS Integers, Sequences, FiniteSets, TLC

(***************************************************************************)
(* Bounds of the model.                                                    *)
(***************************************************************************)
MaxCandles == 8

(***************************************************************************)
(* null / undefined                                                        *)
(***************************************************************************)
Null == [null |-> TRUE]

Abs(x) == IF x < 0 THEN -x ELSE x

Max2(a, b) == IF a >= b THEN a ELSE b

Min2(a, b) == IF a <= b THEN a ELSE b

(***************************************************************************)
(* Program constants.                                                      *)
(***************************************************************************)
\* the literal 0.05 of the chase conditions and of the strict-extreme test
MeaningfulChange == 500

\* the default of preExitLimitOrderMinutes
DefaultPreExitMinutes == 10

MoneyScale == 100 * 100

(***************************************************************************)
(* Timestamps "DD/MM/YYYY HH:MM AM/PM" of one day: hours, minutes and      *)
(* meridiem (the date part is the same for every candle of a day).         *)
(***************************************************************************)
SessionStart == 11 * 60 + 57

\* the timestamp the data source writes for minute-of-day m
ReadableIST(m) ==
  [hours    |-> IF (m \div 60) % 12 = 0 THEN 12 ELSE (m \div 60) % 12,
   minutes  |-> m % 60,
   meridiem |-> IF m \div 60 >= 12 THEN "PM" ELSE "AM"]

Timestamp(idx) == ReadableIST(SessionStart + idx)

parseTimeToMinutes(timestamp) ==
  LET hours == IF timestamp.meridiem = "PM" /\ timestamp.hours < 12
                 THEN timestamp.hours + 12
                 ELSE IF timestamp.meridiem = "AM" /\ timestamp.hours = 12
                        THEN 0
                        ELSE timestamp.hours
  IN hours * 60 + timestamp.minutes

\* "HH:MM" of a configuration, as <<HH, MM>>
parse24HourTimeToMinutes(timeStr) == timeStr[1] * 60 + timeStr[2]

\* "YYYY-MM-DD HH:MM": the 24-hour hours and the minutes
formatTimestamp(timestamp) ==
  [hours   |-> IF timestamp.meridiem = "PM" /\ timestamp.hours < 12
                 THEN timestamp.hours + 12
                 ELSE IF timestamp.meridiem = "AM" /\ timestamp.hours = 12
                        THEN 0
                        ELSE timestamp.hours,
   minutes |-> timestamp.minutes]

calculateTimeDiffInMinutes(timestamp1, timestamp2) ==
  Abs(parseTimeToMinutes(timestamp2) - parseTimeToMinutes(timestamp1))

\* the "HH:MM" of the minute at candle index idx
ClockAt(idx) == <<(SessionStart + idx) \div 60, (SessionStart + idx) % 60>>

(***************************************************************************)
(* Prices.                                                                 *)
(***************************************************************************)
getCandleBodyHigh(candle) == Max2(candle.open, candle.close)

getCandleBodyLow(candle) == Min2(candle.open, candle.close)

\* Math.round(price / tickSize) * tickSize; Math.round rounds halves up
roundToTickSize(price, tickSize) ==
  IF price = 0 THEN price
  ELSE ((2 * price + tickSize) \div (2 * tickSize)) * tickSize

applyPriceRounding(price, cfg) ==
  IF cfg.priceRounding.enabled
    THEN roundToTickSize(price, cfg.priceRounding.tickSize)
    ELSE price

\* a validation that wants the distance strictly above the minimum
MinimumStopLossStrict(currentPrice, stopLossPrice, cfg) ==
  IF cfg.minimumStopLossPercent <= 0
    THEN TRUE
    ELSE Abs(currentPrice - stopLossPrice) * 100
           > cfg.minimumStopLossPercent * currentPrice

\* a validation that passes every stop loss
MinimumStopLossUnchecked(currentPrice, stopLossPrice, cfg) == TRUE

\* passed: |currentPrice - stopLossPrice| / currentPrice * 100 >= minimum
isMinimumStopLossPercentMet(currentPrice, stopLossPrice, cfg) ==
  IF cfg.minimumStopLossPercent <= 0
    THEN TRUE
    ELSE Abs(currentPrice - stopLossPrice) * 100
           >= cfg.minimumStopLossPercent * currentPrice

\* an entry time test that looks at the start of the window only
EntryAllowedFromStartTime(timestamp, cfg) ==
  IF ~cfg.entryTimeRange.enabled
    THEN TRUE
    ELSE parseTimeToMinutes(timestamp)
           >= parse24HourTimeToMinutes(cfg.entryTimeRange.startTime)

isEntryTimeAllowed(timestamp, cfg) ==
  IF ~cfg.entryTimeRange.enabled
    THEN TRUE
    ELSE /\ parseTimeToMinutes(timestamp)
              >= parse24HourTimeToMinutes(cfg.entryTimeRange.startTime)
         /\ parseTimeToMinutes(timestamp)
              <= parse24HourTimeToMinutes(cfg.entryTimeRange.endTime)

\* config.marketExitTime.preExitLimitOrderMinutes || 10
PreExitMinutes(cfg) ==
  IF cfg.marketExitTime.preExitLimitOrderMinutes = 0
    THEN DefaultPreExitMinutes
    ELSE cfg.marketExitTime.preExitLimitOrderMinutes

shouldPlacePreMarketExitOrder(timestamp, cfg) ==
  IF ~cfg.marketExitTime.enabled
    THEN FALSE
    ELSE parseTimeToMinutes(timestamp)
           >= parse24HourTimeToMinutes(cfg.marketExitTime.exitTime)
                - PreExitMinutes(cfg)

\* a forced exit that waits for the minute after exitTime
shouldForceAfterExitTime(timestamp, cfg) ==
  IF ~cfg.marketExitTime.enabled
    THEN FALSE
    ELSE parseTimeToMinutes(timestamp)
           > parse24HourTimeToMinutes(cfg.marketExitTime.exitTime)

shouldForceMarketExit(timestamp, cfg) ==
  IF ~cfg.marketExitTime.enabled
    THEN FALSE
    ELSE parseTimeToMinutes(timestamp)
           >= parse24HourTimeToMinutes(cfg.marketExitTime.exitTime)

\* a threshold test without the upper bound
TimeThresholdWithoutMaximum(timeDiff, cfg) == timeDiff >= cfg.minThreshold

isTimeThresholdMet(timeDiff, cfg) ==
  timeDiff >= cfg.minThreshold /\ timeDiff <= cfg.maxThreshold

\* the sum of data[j].volume for j = from, from - 1, ..., downto
RECURSIVE SumVolume(_, _, _)
SumVolume(data, from, downto) ==
  IF from < downto THEN 0
  ELSE data[from].volume + SumVolume(data, from - 1, downto)

\* a volume confirmation that looks at the breakout candle's own volume
VolumeOfBreakoutCandleConfirms(data, length, currentIndex, cfg) ==
  LET pre    == currentIndex - 1
      lowest == Max2(0, pre - cfg.volumeConfirmation.lookbackPeriod)
      count  == IF pre - 1 >= lowest THEN pre - lowest ELSE 0
      total  == SumVolume(data, pre - 1, lowest)
  IN IF ~cfg.volumeConfirmation.enabled THEN TRUE
     ELSE IF pre < 0 \/ pre >= length THEN TRUE
     ELSE IF count = 0 THEN data[currentIndex].volume >= 0
     ELSE data[currentIndex].volume * count
            >= total * cfg.volumeConfirmation.volumeMultiplier

\* passed: the pre-breakout candle's volume >= average * multiplier, the
\* average taken over the lookbackPeriod candles before it (0 when none)
isVolumeConfirmationMet(data, length, currentIndex, cfg) ==
  LET pre    == currentIndex - 1
      lowest == Max2(0, pre - cfg.volumeConfirmation.lookbackPeriod)
      count  == IF pre - 1 >= lowest THEN pre - lowest ELSE 0
      total  == SumVolume(data, pre - 1, lowest)
  IN IF ~cfg.volumeConfirmation.enabled THEN TRUE
     ELSE IF pre < 0 \/ pre >= length THEN TRUE
     ELSE IF count = 0 THEN data[pre].volume >= 0
     ELSE data[pre].volume * count
            >= total * cfg.volumeConfirmation.volumeMultiplier

(***************************************************************************)
(* Configurations.  brokerageFeePercent is in 1/100 of a percent; times    *)
(* are <<HH, MM>>; dateFilter.dateRange is in day numbers.                  *)
(***************************************************************************)
defaultConfig ==
  [minThreshold |-> 1,
   maxThreshold |-> 3,
   riskRewardRatio |-> 1,
   pullbackPercentage |-> 10,
   minimumStopLossPercent |-> 10,
   entryTimeRange |-> [enabled |-> FALSE, startTime |-> ClockAt(1),
                       endTime |-> ClockAt(4)],
   marketExitTime |-> [enabled |-> FALSE, exitTime |-> ClockAt(7),
                       preExitLimitOrderMinutes |-> 2,
                       dynamicPriceAdjustment |-> TRUE],
   dateFilter |-> [enabled |-> FALSE, dateRange |-> [start |-> 2, end |-> 3]],
   volumeConfirmation |-> [enabled |-> FALSE, volumeMultiplier |-> 2,
                           lookbackPeriod |-> 2],
   capital |-> [initial |-> 100000, utilizationPercent |-> 100,
                leverage |-> 1, brokerageFeePercent |-> 6],
   stopLossExitConfig |-> [enabled |-> TRUE,
                           dynamicStopLossAdjustment |-> TRUE,
                           maxLossPercent |-> 200,
                           forceMarketOrderAfterMax |-> TRUE],
   targetExitConfig |-> [enabled |-> TRUE, dynamicTargetAdjustment |-> TRUE],
   entryOrderConfig |-> [enabled |-> TRUE, dynamicEntryAdjustment |-> TRUE],
   priceRounding |-> [enabled |-> TRUE, tickSize |-> 500]]

\* the configurations the backtest is run with
Configs ==
  { defaultConfig,
    [defaultConfig EXCEPT !.marketExitTime.enabled = TRUE,
                          !.marketExitTime.preExitLimitOrderMinutes = 1],
    [defaultConfig EXCEPT !.marketExitTime.enabled = TRUE,
                          !.marketExitTime.dynamicPriceAdjustment = FALSE],
    [defaultConfig EXCEPT !.marketExitTime.enabled = TRUE,
                          !.marketExitTime.exitTime = ClockAt(8),
                          !.marketExitTime.preExitLimitOrderMinutes = 0,
                          !.entryTimeRange.enabled = TRUE,
                          !.dateFilter.enabled = TRUE,
                          !.maxThreshold = 5,
                          !.minimumStopLossPercent = 0],
    [defaultConfig EXCEPT !.volumeConfirmation.enabled = TRUE,
                          !.volumeConfirmation.lookbackPeriod = 1,
                          !.minThreshold = 2],
    [defaultConfig EXCEPT !.priceRounding.enabled = FALSE,
                          !.stopLossExitConfig.dynamicStopLossAdjustment = FALSE,
                          !.stopLossExitConfig.forceMarketOrderAfterMax = FALSE,
                          !.targetExitConfig.enabled = FALSE,
                          !.entryOrderConfig.enabled = FALSE,
                          !.capital.leverage = 0,
                          !.capital.brokerageFeePercent = 0] }

(***************************************************************************)
(* The candles a day is made of: open, high, low, close and volume.        *)
(***************************************************************************)
Shape(o, h, l, c, v) ==
  [open |-> o, high |-> h, low |-> l, close |-> c, volume |-> v]

CandleShapes ==
  { Shape(10000, 10000,  8600,  8800, 1),     \* falls
    Shape(10000, 11400, 10000, 11200, 2),     \* rises
    Shape(10000, 10000,  9500,  9700, 1),     \* dips
    Shape(10000, 10500, 10000, 10300, 1),     \* lifts
    Shape( 9500,  9500,  8000,  8500, 3),     \* collapses
    Shape(10500, 12000, 10500, 11500, 3) }    \* spikes

\* stockData.data: the day numbers, each with null, [] or an array of candles
StockDataLayouts == { <<"null", "candles", "empty">> }

VARIABLES
  config,                  \* the configuration of this backtest
  stockData,               \* per day number: "null", "empty" or "candles"
  tape,                    \* the candles of every day with candles when
                           \* stockData gives each of them the same array,
                           \* and << >> when it gives any candles
  dates,                   \* backtest: the included day numbers, in order
  dateIndex,               \* backtest: the position in dates
  allTrades,               \* backtest: one outcome per processed date
  stats,                   \* backtest: what calculateStats has returned,
                           \* Null until then
  pc,                      \* "dates", "scan", "simulate", "exit" or "done"
  dayData,                 \* the candles of the day read so far that the
                           \* program can still read, by index
  len,                     \* the number of candles of the day read so far
  previousHighTime, previousHighPrice,
  previousLowTime, previousLowPrice,
  lowestSinceLastHigh, highestSinceLastLow,
  pendingLongBreakout, pendingShortBreakout,
  pendingLongEntryOrder, pendingShortEntryOrder,
  longEntry, shortEntry,
  invalidBreakouts,        \* its first element, or <<>>
  trade,                   \* simulateTrade: the entry being simulated
  entryIndex,
  i,                       \* simulateTrade: the loop index
  preMarketExitOrder, preMarketExitDetails,
  targetHit, activeTargetOrder, targetExitDetails,
  stopLossBreach, activeStopLossOrder, stopLossExitDetails,
  exitPrice, exitTime, exitReason,
  combinations,            \* the parameter combinations of the grid search
  numChunks,               \* splitIntoChunks: the number of chunks asked for
  chunks,                  \* splitIntoChunks: the chunks pushed so far
  chunkIndex,              \* splitIntoChunks: the loop index
  workers,                 \* per started worker: its combinations, its loop
                           \* index and its bestResult
  inbox,                   \* per started worker: its messages and events
                           \* that the main thread has not handled yet
  results,                 \* the coordinator's merged results
  completedWorkers,        \* the coordinator's counter
  reports,                 \* how many final reports were produced, each
                           \* with the results it was made from
  existingBest,            \* what loadExistingBestConfig has returned
  globalBestResult,        \* the coordinator's running best
  resolved                 \* the workers whose final message the main
                           \* thread has handled

gridVars ==
  <<combinations, numChunks, chunks, chunkIndex, workers, inbox, results,
    completedWorkers, reports, existingBest, globalBestResult, resolved>>

backtestVars ==
  <<config, stockData, tape, dates, dateIndex, allTrades, stats, gridVars>>

scanVars ==
  <<previousHighTime, previousHighPrice, previousLowTime, previousLowPrice,
    lowestSinceLastHigh, highestSinceLastLow,
    pendingLongBreakout, pendingShortBreakout,
    pendingLongEntryOrder, pendingShortEntryOrder,
    longEntry, shortEntry, invalidBreakouts>>

simVars ==
  <<trade, entryIndex, i, preMarketExitOrder, preMarketExitDetails,
    targetHit, activeTargetOrder, targetExitDetails,
    stopLossBreach, activeStopLossOrder, stopLossExitDetails,
    exitPrice, exitTime, exitReason>>

vars == <<backtestVars, pc, dayData, len, scanVars, simVars>>

(***************************************************************************)
(* analyzeTradingDay: the blocks of the loop body.  The long and the short *)
(* block of the code mirror each other; side is "long" or "short".         *)
(***************************************************************************)
\* the candle at index idx of a day
CandleAt(shape, idx) ==
  [timestamp_readable_IST |-> Timestamp(idx),
   open |-> shape.open, high |-> shape.high, low |-> shape.low,
   close |-> shape.close, volume |-> shape.volume]

\* a skip-one-candle test that lets an order fill on the candle after its
\* placement
SkipNoCandle(idx, order) == idx > order.placedAtCandle

\* the skip-one-candle test of every limit order
SkipOneCandlePassed(idx, order) == idx > order.placedAtCandle + 1

\* a pullback test that asks for the touch of the entry level only
PullbackTouched(side, candle, breakout) ==
  IF side = "long"
    THEN candle.low <= breakout.pullbackEntryPrice
    ELSE candle.high >= breakout.pullbackEntryPrice

\* price has pulled back to the entry level and closed beyond it
PullbackHit(side, candle, breakout) ==
  IF side = "long"
    THEN candle.low <= breakout.pullbackEntryPrice
         /\ candle.close < breakout.pullbackEntryPrice
    ELSE candle.high >= breakout.pullbackEntryPrice
         /\ candle.close > breakout.pullbackEntryPrice

\* the pullback block: [breakout, order] after it
PullbackEntry(side, breakout, order, entry, candle, idx, cfg) ==
  IF breakout # Null /\ entry = Null /\ order = Null
       /\ PullbackHit(side, candle, breakout)
    THEN IF isEntryTimeAllowed(candle.timestamp_readable_IST, cfg)
           THEN [breakout |-> breakout,
                 order |-> [price |-> applyPriceRounding(candle.close, cfg),
                            originalPrice |->
                              applyPriceRounding(candle.close, cfg),
                            placedTime |->
                              formatTimestamp(candle.timestamp_readable_IST),
                            placedAtCandle |-> idx,
                            priceUpdates |-> 0,
                            breakoutInfo |-> breakout]]
           ELSE [breakout |-> Null, order |-> order]
    ELSE [breakout |-> breakout, order |-> order]

\* the candle fills a limit entry order
EntryOrderFills(side, candle, order) ==
  IF side = "long" THEN candle.low <= order.price
                   ELSE candle.high >= order.price

\* an entry price update accepted whenever the price moved by the
\* threshold, whatever the direction
EntryPriceMoved(side, newPrice, oldPrice) ==
  Abs(newPrice - oldPrice) >= MeaningfulChange

\* the new price is better for the entry, by a meaningful change
EntryPriceBetter(side, newPrice, oldPrice) ==
  /\ IF side = "long" THEN newPrice < oldPrice ELSE newPrice > oldPrice
  /\ Abs(newPrice - oldPrice) >= MeaningfulChange

\* the trade an entry order creates when it fills
FilledEntry(side, order, candle, cfg) ==
  [type |-> side,
   entry |-> [price |-> order.price,
              time |-> formatTimestamp(candle.timestamp_readable_IST)],
   target |-> order.breakoutInfo.target,
   stopLoss |-> order.breakoutInfo.stopLoss,
   breakoutDetails |->
     [breakoutTime |-> order.breakoutInfo.breakoutDetails.breakoutTime,
      breakoutPrice |-> order.breakoutInfo.breakoutPrice,
      timeSincePreviousExtreme |->
        order.breakoutInfo.breakoutDetails.timeSincePreviousExtreme,
      actualEntryTime |-> formatTimestamp(candle.timestamp_readable_IST),
      actualEntryPrice |-> order.price,
      entryOrderDetails |->
        [orderPlacedTime |-> order.placedTime,
         orderPlacedAtCandle |-> order.placedAtCandle,
         originalOrderPrice |-> order.originalPrice,
         finalOrderPrice |-> order.price,
         priceUpdates |-> order.priceUpdates]]]

\* the entry order block: [breakout, order, entry] after it
EntryOrderCheck(side, breakout, order, entry, candle, idx, cfg) ==
  LET same     == [breakout |-> breakout, order |-> order, entry |-> entry]
      newPrice == applyPriceRounding(candle.close, cfg)
  IN IF ~(order # Null /\ entry = Null) THEN same
     ELSE IF ~SkipOneCandlePassed(idx, order) THEN same
     ELSE IF ~isEntryTimeAllowed(candle.timestamp_readable_IST, cfg)
       THEN [breakout |-> Null, order |-> Null, entry |-> entry]
     ELSE IF EntryOrderFills(side, candle, order)
       THEN [breakout |-> Null, order |-> Null,
             entry |-> FilledEntry(side, order, candle, cfg)]
     ELSE IF cfg.entryOrderConfig.dynamicEntryAdjustment
               /\ EntryPriceBetter(side, newPrice, order.price)
       THEN [same EXCEPT !.order.price = newPrice,
                         !.order.priceUpdates = @ + 1]
     ELSE same

\* a strictly new extreme of the candle bodies
IsNewExtreme(side, candle, previousPrice) ==
  IF side = "long"
    THEN getCandleBodyHigh(candle) > previousPrice + MeaningfulChange
    ELSE getCandleBodyLow(candle) < previousPrice - MeaningfulChange

\* a breakout whose pullback level lies beyond the breakout price, away
\* from the stop
NewBreakoutPullbackBeyond(side, previousPrice, oppositeSince, timeDiff, candle, cfg) ==
  LET breakoutPrice == applyPriceRounding(previousPrice, cfg)
      stopLoss      == applyPriceRounding(oppositeSince, cfg)
      risk          == IF side = "long" THEN breakoutPrice - stopLoss
                                        ELSE stopLoss - breakoutPrice
      reward        == risk * cfg.riskRewardRatio
      pullbackAmount == (risk * cfg.pullbackPercentage) \div 100
  IN [type |-> side,
      breakoutPrice |-> breakoutPrice,
      pullbackEntryPrice |->
        applyPriceRounding(IF side = "long" THEN breakoutPrice + pullbackAmount
                                            ELSE breakoutPrice - pullbackAmount,
                           cfg),
      target |->
        applyPriceRounding(IF side = "long" THEN breakoutPrice + reward
                                            ELSE breakoutPrice - reward, cfg),
      stopLoss |-> stopLoss,
      breakoutDetails |->
        [breakoutTime |-> formatTimestamp(candle.timestamp_readable_IST),
         timeSincePreviousExtreme |-> timeDiff,
         pullbackAmount |-> pullbackAmount]]

\* the breakout a new extreme registers
NewBreakout(side, previousPrice, oppositeSince, timeDiff, candle, cfg) ==
  LET breakoutPrice == applyPriceRounding(previousPrice, cfg)
      stopLoss      == applyPriceRounding(oppositeSince, cfg)
      risk          == IF side = "long" THEN breakoutPrice - stopLoss
                                        ELSE stopLoss - breakoutPrice
      reward        == risk * cfg.riskRewardRatio
      pullbackAmount == (risk * cfg.pullbackPercentage) \div 100
  IN [type |-> side,
      breakoutPrice |-> breakoutPrice,
      pullbackEntryPrice |->
        applyPriceRounding(IF side = "long" THEN breakoutPrice - pullbackAmount
                                            ELSE breakoutPrice + pullbackAmount,
                           cfg),
      target |->
        applyPriceRounding(IF side = "long" THEN breakoutPrice + reward
                                            ELSE breakoutPrice - reward, cfg),
      stopLoss |-> stopLoss,
      breakoutDetails |->
        [breakoutTime |-> formatTimestamp(candle.timestamp_readable_IST),
         timeSincePreviousExtreme |-> timeDiff,
         pullbackAmount |-> pullbackAmount]]

\* the record returned when the stop loss of a breakout is too tight
StopLossTooTight(date, side, previousPrice, candle, cfg) ==
  [date |-> date,
   message |-> "Breakout detected but stop loss too tight",
   breakoutDetected |-> TRUE,
   breakoutType |-> side,
   breakoutTime |-> formatTimestamp(candle.timestamp_readable_IST),
   breakoutPrice |-> applyPriceRounding(previousPrice, cfg),
   volumeRejection |-> FALSE,
   minimumStopLossRejection |-> TRUE]

\* a new-extreme block that registers a breakout whether or not the
\* direction has its entry
ExtremeCheckIgnoringEntry(side, date, previousPrice, previousTime, oppositeSince, breakout, entry, data, candle, idx, cfg) ==
  LET timeDiff == calculateTimeDiffInMinutes(candle.timestamp_readable_IST,
                                             previousTime)
      isNew    == IsNewExtreme(side, candle, previousPrice)
      valid    == isNew /\ isTimeThresholdMet(timeDiff, cfg)
                    /\ breakout = Null
                    /\ isVolumeConfirmationMet(data, idx + 1, idx, cfg)
      roomy    == isMinimumStopLossPercentMet(
                    applyPriceRounding(previousPrice, cfg),
                    applyPriceRounding(oppositeSince, cfg), cfg)
  IN [isNew |-> isNew,
      breakout |-> IF valid /\ roomy
                     THEN NewBreakout(side, previousPrice, oppositeSince,
                                      timeDiff, candle, cfg)
                     ELSE breakout,
      returned |-> IF valid /\ ~roomy
                     THEN StopLossTooTight(date, side, previousPrice, candle,
                                           cfg)
                     ELSE Null,
      invalid |-> IF isNew /\ ~isTimeThresholdMet(timeDiff, cfg)
                    THEN [type |-> side,
                          breakoutTime |->
                            formatTimestamp(candle.timestamp_readable_IST),
                          breakoutPrice |->
                            applyPriceRounding(previousPrice, cfg),
                          timeGap |-> timeDiff]
                    ELSE Null]

\* the new-extreme block: the breakout after it, the record it returns (or
\* Null), the invalid breakout it records (or Null), and whether the
\* extreme is new
ExtremeCheck(side, date, previousPrice, previousTime, oppositeSince, breakout, entry, data, candle, idx, cfg) ==
  LET timeDiff == calculateTimeDiffInMinutes(candle.timestamp_readable_IST,
                                             previousTime)
      isNew    == IsNewExtreme(side, candle, previousPrice)
      valid    == isNew /\ isTimeThresholdMet(timeDiff, cfg)
                    /\ breakout = Null /\ entry = Null
                    /\ isVolumeConfirmationMet(data, idx + 1, idx, cfg)
      roomy    == isMinimumStopLossPercentMet(
                    applyPriceRounding(previousPrice, cfg),
                    applyPriceRounding(oppositeSince, cfg), cfg)
  IN [isNew |-> isNew,
      breakout |-> IF valid /\ roomy
                     THEN NewBreakout(side, previousPrice, oppositeSince,
                                      timeDiff, candle, cfg)
                     ELSE breakout,
      returned |-> IF valid /\ ~roomy
                     THEN StopLossTooTight(date, side, previousPrice, candle,
                                           cfg)
                     ELSE Null,
      invalid |-> IF isNew /\ ~isTimeThresholdMet(timeDiff, cfg)
                    THEN [type |-> side,
                          breakoutTime |->
                            formatTimestamp(candle.timestamp_readable_IST),
                          breakoutPrice |->
                            applyPriceRounding(previousPrice, cfg),
                          timeGap |-> timeDiff]
                    ELSE Null]

(***************************************************************************)
(* backtest and analyzeTradingDay.                                         *)
(***************************************************************************)
shouldIncludeDate(date, cfg) ==
  IF ~cfg.dateFilter.enabled THEN TRUE
  ELSE date >= cfg.dateFilter.dateRange.start
       /\ date <= cfg.dateFilter.dateRange.end

IncludedDates(data, cfg) ==
  SelectSeq([d \in 1..Len(data) |-> d], LAMBDA d : shouldIncludeDate(d, cfg))

\* a push that drops the outcome of a day without a trade
PushTradesOnly(trades, outcome) ==
  IF "exit" \in DOMAIN outcome THEN Append(trades, outcome) ELSE trades

\* allTrades.push(dayTradeResult)
PushOutcome(trades, outcome) == Append(trades, outcome)

\* what analyzeTradingDay returns for a day without candles
NoDataAvailable(date) ==
  [date |-> date,
   message |-> "No data available for this date",
   volumeRejection |-> FALSE,
   minimumStopLossRejection |-> FALSE]

\* the variables of the scan of analyzeTradingDay, once they are read no more
NoScanState ==
  /\ previousHighTime' = Null /\ previousHighPrice' = 0
  /\ previousLowTime' = Null /\ previousLowPrice' = 0
  /\ lowestSinceLastHigh' = 0 /\ highestSinceLastLow' = 0
  /\ pendingLongBreakout' = Null /\ pendingShortBreakout' = Null
  /\ pendingLongEntryOrder' = Null /\ pendingShortEntryOrder' = Null
  /\ longEntry' = Null /\ shortEntry' = Null
  /\ invalidBreakouts' = << >>

NoDayState ==
  /\ dayData' = << >>
  /\ len' = 0
  /\ NoScanState

NoTradeState ==
  /\ trade' = Null /\ entryIndex' = 0 /\ i' = 0
  /\ preMarketExitOrder' = Null /\ preMarketExitDetails' = Null
  /\ targetHit' = FALSE /\ activeTargetOrder' = Null
  /\ targetExitDetails' = Null
  /\ stopLossBreach' = FALSE /\ activeStopLossOrder' = Null
  /\ stopLossExitDetails' = Null
  /\ exitPrice' = Null /\ exitTime' = Null /\ exitReason' = Null

\* the day's outcome is recorded and the backtest moves to the next date
ReturnOutcome(outcome) ==
  /\ allTrades' = PushOutcome(allTrades, outcome)
  /\ dateIndex' = dateIndex + 1
  /\ pc' = "dates"
  /\ NoDayState
  /\ NoTradeState
  /\ UNCHANGED <<config, stockData, tape, dates, stats, gridVars>>

\* no grid search is running
NoGridSearch ==
  /\ combinations = << >> /\ numChunks = 0
  /\ chunks = << >> /\ chunkIndex = 0
  /\ workers = << >> /\ inbox = << >>
  /\ results = << >> /\ completedWorkers = 0 /\ reports = << >>
  /\ existingBest = Null /\ globalBestResult = Null /\ resolved = {}

\* backtest is entered: no date is processed yet
BacktestEntered ==
  /\ dates = IncludedDates(stockData, config)
  /\ dateIndex = 1
  /\ allTrades = << >>
  /\ stats = Null
  /\ pc = "dates"
  /\ dayData = << >>
  /\ len = 0
  /\ previousHighTime = Null /\ previousHighPrice = 0
  /\ previousLowTime = Null /\ previousLowPrice = 0
  /\ lowestSinceLastHigh = 0 /\ highestSinceLastLow = 0
  /\ pendingLongBreakout = Null /\ pendingShortBreakout = Null
  /\ pendingLongEntryOrder = Null /\ pendingShortEntryOrder = Null
  /\ longEntry = Null /\ shortEntry = Null
  /\ invalidBreakouts = << >>
  /\ trade = Null /\ entryIndex = 0 /\ i = 0
  /\ preMarketExitOrder = Null /\ preMarketExitDetails = Null
  /\ targetHit = FALSE /\ activeTargetOrder = Null
  /\ targetExitDetails = Null
  /\ stopLossBreach = FALSE /\ activeStopLossOrder = Null
  /\ stopLossExitDetails = Null
  /\ exitPrice = Null /\ exitTime = Null /\ exitReason = Null

Init ==
  /\ config \in Configs
  /\ stockData \in StockDataLayouts
  /\ tape = << >>
  /\ BacktestEntered
  /\ NoGridSearch

\* the candles at the indexes >= from
Keep(data, from) == [j \in {k \in DOMAIN data : k >= from} |-> data[j]]

\* The candles the program can still read once the candle at idx is done:
\* the volumes of the lookback window of the next candle, and, from the
\* first fill on, every candle (simulateTrade reads on from the fill).
StillRead(data, idx, hadEntry, hasEntry, cfg) ==
  LET window == IF cfg.volumeConfirmation.enabled
                  THEN idx - cfg.volumeConfirmation.lookbackPeriod
                  ELSE idx + 1
  IN IF hadEntry THEN data
     ELSE IF hasEntry THEN Keep(data, Min2(idx, window))
     ELSE Keep(data, window)

\* backtest takes the next date; analyzeTradingDay returns at once for a
\* day without candles, and else sets up its scan on the first candle
StartDayFrom(shapes) ==
  /\ pc = "dates"
  /\ dateIndex <= Len(dates)
  /\ LET date == dates[dateIndex]
     IN IF stockData[date] \in {"null", "empty"}
          THEN ReturnOutcome(NoDataAvailable(date))
          ELSE \E shape \in shapes :
                 LET first == CandleAt(shape, 0)
                 IN /\ pc' = "scan"
                    /\ dayData' = StillRead((0 :> first), 0, FALSE, FALSE,
                                            config)
                    /\ len' = 1
                    /\ previousHighTime' = first.timestamp_readable_IST
                    /\ previousHighPrice' = getCandleBodyHigh(first)
                    /\ previousLowTime' = first.timestamp_readable_IST
                    /\ previousLowPrice' = getCandleBodyLow(first)
                    /\ lowestSinceLastHigh' = getCandleBodyLow(first)
                    /\ highestSinceLastLow' = getCandleBodyHigh(first)
                    /\ pendingLongBreakout' = Null
                    /\ pendingShortBreakout' = Null
                    /\ pendingLongEntryOrder' = Null
                    /\ pendingShortEntryOrder' = Null
                    /\ longEntry' = Null /\ shortEntry' = Null
                    /\ invalidBreakouts' = << >>
                    /\ UNCHANGED <<backtestVars, simVars>>

StartDay == StartDayFrom(CandleShapes)

\* a record of invalid breakouts that keeps the latest one
RecordLatestInvalid(recorded, invalid) ==
  IF invalid # Null THEN <<invalid>> ELSE recorded

\* invalidBreakouts.push(...): only invalidBreakouts[0] and whether the
\* array is empty are ever read, so the first one pushed is all that is kept
RecordInvalid(recorded, invalid) ==
  IF invalid # Null /\ recorded = << >> THEN <<invalid>> ELSE recorded

\* one pass of the loop of analyzeTradingDay, over the candle at index len
ScanCandleFrom(shapes) ==
  /\ pc = "scan"
  /\ \E shape \in shapes :
       LET idx    == len
           date   == dates[dateIndex]
           candle == CandleAt(shape, idx)
           data   == (idx :> candle) @@ dayData
           currentBodyLow  == getCandleBodyLow(candle)
           currentBodyHigh == getCandleBodyHigh(candle)
           lowest  == Min2(currentBodyLow, lowestSinceLastHigh)
           highest == Max2(currentBodyHigh, highestSinceLastLow)
           pullL == PullbackEntry("long", pendingLongBreakout,
                                  pendingLongEntryOrder, longEntry,
                                  candle, idx, config)
           pullS == PullbackEntry("short", pendingShortBreakout,
                                  pendingShortEntryOrder, shortEntry,
                                  candle, idx, config)
           fillL == EntryOrderCheck("long", pullL.breakout, pullL.order,
                                    longEntry, candle, idx, config)
           fillS == EntryOrderCheck("short", pullS.breakout, pullS.order,
                                    shortEntry, candle, idx, config)
           high  == ExtremeCheck("long", date, previousHighPrice,
                                 previousHighTime, lowest, fillL.breakout,
                                 fillL.entry, data, candle, idx, config)
           low   == ExtremeCheck("short", date, previousLowPrice,
                                 previousLowTime, highest, fillS.breakout,
                                 fillS.entry, data, candle, idx, config)
           invalid1 == RecordInvalid(invalidBreakouts, high.invalid)
           invalid2 == RecordInvalid(invalid1, low.invalid)
       IN IF high.returned # Null THEN ReturnOutcome(high.returned)
          ELSE IF low.returned # Null THEN ReturnOutcome(low.returned)
          ELSE
            /\ dayData' = StillRead(data, idx,
                                    longEntry # Null \/ shortEntry # Null,
                                    fillL.entry # Null \/ fillS.entry # Null,
                                    config)
            /\ len' = len + 1
            /\ previousHighPrice' =
                 IF high.isNew THEN currentBodyHigh ELSE previousHighPrice
            /\ previousHighTime' =
                 IF high.isNew THEN candle.timestamp_readable_IST
                               ELSE previousHighTime
            /\ lowestSinceLastHigh' =
                 IF high.isNew THEN currentBodyLow ELSE lowest
            /\ previousLowPrice' =
                 IF low.isNew THEN currentBodyLow ELSE previousLowPrice
            /\ previousLowTime' =
                 IF low.isNew THEN candle.timestamp_readable_IST
                              ELSE previousLowTime
            /\ highestSinceLastLow' =
                 IF low.isNew THEN currentBodyHigh ELSE highest
            /\ pendingLongBreakout' = high.breakout
            /\ pendingShortBreakout' = low.breakout
            /\ pendingLongEntryOrder' = fillL.order
            /\ pendingShortEntryOrder' = fillS.order
            /\ longEntry' = fillL.entry
            /\ shortEntry' = fillS.entry
            /\ invalidBreakouts' = invalid2
            /\ UNCHANGED <<backtestVars, pc, simVars>>

ScanCandle == len < MaxCandles /\ ScanCandleFrom(CandleShapes)

(***************************************************************************)
(* The end of analyzeTradingDay and the start of simulateTrade.            *)
(***************************************************************************)
BreakoutWithoutPullback(date, breakout) ==
  [date |-> date,
   message |-> "Breakout detected but no pullback entry",
   breakoutDetected |-> TRUE,
   breakoutType |-> breakout.type,
   breakoutTime |-> breakout.breakoutDetails.breakoutTime,
   breakoutPrice |-> breakout.breakoutPrice,
   requiredPullbackPrice |-> breakout.pullbackEntryPrice,
   volumeRejection |-> FALSE,
   minimumStopLossRejection |-> FALSE]

EntryOrderNotFilled(date, order) ==
  [date |-> date,
   message |-> "Entry order placed but not filled",
   breakoutDetected |-> TRUE,
   breakoutType |-> order.breakoutInfo.type,
   breakoutTime |-> order.breakoutInfo.breakoutDetails.breakoutTime,
   breakoutPrice |-> order.breakoutInfo.breakoutPrice,
   requiredPullbackPrice |-> order.breakoutInfo.pullbackEntryPrice,
   entryOrderPlaced |-> TRUE,
   entryOrderPrice |-> order.price,
   entryOrderOriginalPrice |-> order.originalPrice,
   entryOrderPriceUpdates |-> order.priceUpdates,
   volumeRejection |-> FALSE,
   minimumStopLossRejection |-> FALSE]

BreakoutOutsideTimeRange(date, firstInvalidBreakout) ==
  [date |-> date,
   message |-> "Breakout detected but outside time threshold range",
   breakoutOutsideTimeRange |-> TRUE,
   breakoutType |-> firstInvalidBreakout.type,
   breakoutTime |-> firstInvalidBreakout.breakoutTime,
   breakoutPrice |-> firstInvalidBreakout.breakoutPrice,
   timeGap |-> firstInvalidBreakout.timeGap,
   volumeRejection |-> FALSE,
   minimumStopLossRejection |-> FALSE]

NoValidBreakout(date) ==
  [date |-> date,
   message |-> "No valid breakout detected",
   volumeRejection |-> FALSE,
   minimumStopLossRejection |-> FALSE]

CouldNotFindEntryCandle(date) ==
  [date |-> date,
   message |-> "Could not find entry candle",
   volumeRejection |-> FALSE]

\* the minutes of a formatted "YYYY-MM-DD HH:MM"
FormattedMinutes(formatted) == formatted.hours * 60 + formatted.minutes

\* dayData.findIndex by the formatted entry time, then by the closest later
\* time; -1 when there is none
FindEntryIndex(length, entryTimeStr) ==
  LET exact == {j \in 0..(length - 1) :
                  formatTimestamp(Timestamp(j)) = entryTimeStr}
      later == {j \in 0..(length - 1) :
                  parseTimeToMinutes(Timestamp(j))
                    >= FormattedMinutes(entryTimeStr)}
      Least(S) == CHOOSE j \in S : \A k \in S : j <= k
  IN IF exact # {} THEN Least(exact)
     ELSE IF later # {} THEN Least(later)
     ELSE -1

\* the data has ended: analyzeTradingDay simulates the entry it has, or
\* returns the reason there is none
EndOfDay ==
  /\ pc = "scan"
  /\ LET date  == dates[dateIndex]
         entry == IF longEntry # Null THEN longEntry ELSE shortEntry
     IN IF longEntry # Null \/ shortEntry # Null
          THEN IF FindEntryIndex(len, entry.entry.time) = -1
                 THEN ReturnOutcome(CouldNotFindEntryCandle(date))
                 ELSE
                   /\ pc' = "simulate"
                   /\ trade' = entry
                   /\ entryIndex' = FindEntryIndex(len, entry.entry.time)
                   /\ i' = FindEntryIndex(len, entry.entry.time) + 1
                   /\ preMarketExitOrder' = Null
                   /\ preMarketExitDetails' =
                        [enabled |-> config.marketExitTime.enabled,
                         dynamicPriceAdjustment |->
                           config.marketExitTime.dynamicPriceAdjustment,
                         orderPlaced |-> FALSE,
                         orderPlacementPrice |-> 0,
                         orderPlacementCandleIndex |-> -1,
                         orderFilled |-> FALSE,
                         orderFillPrice |-> 0,
                         orderFillCandleIndex |-> -1,
                         totalPriceUpdates |-> 0]
                   /\ targetHit' = FALSE
                   /\ activeTargetOrder' = Null
                   /\ targetExitDetails' =
                        [enabled |-> config.targetExitConfig.enabled,
                         dynamicTargetAdjustment |->
                           config.targetExitConfig.dynamicTargetAdjustment,
                         targetHit |-> FALSE,
                         hitCandleClose |-> 0,
                         hitCandleIndex |-> -1,
                         originalLimitPrice |-> 0,
                         totalPriceUpdates |-> 0,
                         orderFillDetails |-> Null]
                   /\ stopLossBreach' = FALSE
                   /\ activeStopLossOrder' = Null
                   /\ stopLossExitDetails' =
                        [enabled |-> config.stopLossExitConfig.enabled,
                         stopLossBreached |-> FALSE,
                         breachCandleClose |-> 0,
                         breachCandleIndex |-> -1,
                         originalLimitPrice |-> 0,
                         totalPriceUpdates |-> 0,
                         circuitBreakerTriggered |-> FALSE,
                         orderFillDetails |-> Null]
                   /\ exitPrice' = 0
                   /\ exitTime' = Null
                   /\ exitReason' = Null
                   /\ dayData' = Keep(dayData,
                        Min2(FindEntryIndex(len, entry.entry.time) + 1,
                             len - 1))
                   /\ NoScanState
                   /\ UNCHANGED <<backtestVars, len>>
        ELSE IF pendingLongBreakout # Null \/ pendingShortBreakout # Null
          THEN ReturnOutcome(BreakoutWithoutPullback(date,
                 IF pendingLongBreakout # Null THEN pendingLongBreakout
                                               ELSE pendingShortBreakout))
        ELSE IF pendingLongEntryOrder # Null \/ pendingShortEntryOrder # Null
          THEN ReturnOutcome(EntryOrderNotFilled(date,
                 IF pendingLongEntryOrder # Null THEN pendingLongEntryOrder
                                                 ELSE pendingShortEntryOrder))
        ELSE IF invalidBreakouts # << >>
          THEN ReturnOutcome(BreakoutOutsideTimeRange(date,
                                                      invalidBreakouts[1]))
        ELSE ReturnOutcome(NoValidBreakout(date))

(***************************************************************************)
(* simulateTrade: the blocks of the loop body.                             *)
(***************************************************************************)
\* a limit exit order (pre-market, target or stop loss) is crossed
ExitOrderFills(type, candle, order) ==
  IF type = "long" THEN candle.high >= order.price
                   ELSE candle.low <= order.price

\* a limit order placed at the rounded close of the candle at idx
OrderAtClose(candle, idx, cfg) ==
  [price |-> applyPriceRounding(candle.close, cfg),
   originalPrice |-> applyPriceRounding(candle.close, cfg),
   placedTime |-> formatTimestamp(candle.timestamp_readable_IST),
   placedAtCandle |-> idx,
   priceUpdates |-> 0]

TargetReached(type, candle, target) ==
  IF type = "long" THEN candle.high >= target ELSE candle.low <= target

StopLossReached(type, candle, stopLoss) ==
  IF type = "long" THEN candle.low <= stopLoss ELSE candle.high >= stopLoss

\* a price update accepted whenever the price moved by the threshold,
\* whatever the direction
PriceMoved(type, newPrice, oldPrice) ==
  Abs(newPrice - oldPrice) >= MeaningfulChange

\* the new price of a target order is better, by a meaningful change
TargetPriceBetter(type, newPrice, oldPrice) ==
  /\ IF type = "long" THEN newPrice > oldPrice ELSE newPrice < oldPrice
  /\ Abs(newPrice - oldPrice) >= MeaningfulChange

\* the new price of a stop loss order is worse, by a meaningful change
StopLossPriceWorse(type, newPrice, oldPrice) ==
  /\ IF type = "long" THEN newPrice < oldPrice ELSE newPrice > oldPrice
  /\ Abs(newPrice - oldPrice) >= MeaningfulChange

\* trade.entry.price - trade.stopLoss, or the reverse for a short trade
RiskPoints(t) ==
  IF t.type = "long" THEN t.entry.price - t.stopLoss
                     ELSE t.stopLoss - t.entry.price

\* the adverse extreme of the candle
AdverseExtreme(type, candle) ==
  IF type = "long" THEN candle.low ELSE candle.high

\* (currentLoss / riskPoints) * 100 >= maxLossPercent, as the doubles
\* decide it: a division by zero gives an infinity, or NaN for 0 / 0
LossAtLeast(currentLoss, riskPoints, maxLossPercent) ==
  IF riskPoints > 0 THEN currentLoss * 100 >= maxLossPercent * riskPoints
  ELSE IF riskPoints < 0
    THEN currentLoss * 100 <= maxLossPercent * riskPoints
  ELSE currentLoss > 0

\* a circuit breaker that measures the loss at the close of the candle
CircuitBreakerAtClose(t, candle, cfg) ==
  /\ cfg.stopLossExitConfig.forceMarketOrderAfterMax
  /\ cfg.stopLossExitConfig.maxLossPercent # 0
  /\ LossAtLeast(IF t.type = "long" THEN t.entry.price - candle.close
                                    ELSE candle.close - t.entry.price,
                 RiskPoints(t), cfg.stopLossExitConfig.maxLossPercent)

\* the circuit breaker trips on this candle
CircuitBreakerTrips(t, candle, cfg) ==
  /\ cfg.stopLossExitConfig.forceMarketOrderAfterMax
  /\ cfg.stopLossExitConfig.maxLossPercent # 0
  /\ LossAtLeast(IF t.type = "long" THEN t.entry.price - candle.low
                                    ELSE candle.high - t.entry.price,
                 RiskPoints(t), cfg.stopLossExitConfig.maxLossPercent)

\* an exit reason; the circuit breaker's names the maxLossPercent:
\* `circuit breaker (${maxLossPercent}% max loss)`
Reason(text) == [text |-> text]

CircuitBreakerReason(maxLossPercent) ==
  [text |-> "circuit breaker (% max loss)", percent |-> maxLossPercent]

FillDetails(order, idx) ==
  [filledOrderPrice |-> order.price,
   placedAtCandleIndex |-> order.placedAtCandle,
   filledAtCandleIndex |-> idx]

\* The pre-market exit block and the forced exit test on the candle at idx:
\* the order and its details after them, and whether the order filled or
\* the exit was forced.
PreMarketExit(candle, idx, cfg) ==
  LET close == applyPriceRounding(candle.close, cfg)
      place == /\ cfg.marketExitTime.enabled
               /\ preMarketExitOrder = Null
               /\ shouldPlacePreMarketExitOrder(
                    candle.timestamp_readable_IST, cfg)
      order == IF place THEN OrderAtClose(candle, idx, cfg)
                        ELSE preMarketExitOrder
      details == IF place
                   THEN [preMarketExitDetails EXCEPT
                           !.orderPlaced = TRUE,
                           !.orderPlacementPrice = close,
                           !.orderPlacementCandleIndex = idx]
                   ELSE preMarketExitDetails
      check == /\ order # Null
               /\ ~preMarketExitDetails.orderFilled
               /\ SkipOneCandlePassed(idx, order)
      fills == check /\ ExitOrderFills(trade.type, candle, order)
      move  == /\ check /\ ~fills
               /\ preMarketExitDetails.dynamicPriceAdjustment
               /\ Abs(close - order.price) >= MeaningfulChange
  IN [fills |-> fills,
      forced |-> ~fills
                 /\ shouldForceMarketExit(candle.timestamp_readable_IST, cfg),
      fillPrice |-> IF fills THEN order.price ELSE 0,
      order |-> IF move THEN [order EXCEPT !.price = close,
                                           !.priceUpdates = @ + 1]
                        ELSE order,
      details |-> IF fills
                    THEN [details EXCEPT !.orderFilled = TRUE,
                                         !.orderFillPrice = order.price,
                                         !.orderFillCandleIndex = idx]
                  ELSE IF move
                    THEN [details EXCEPT !.totalPriceUpdates = @ + 1]
                  ELSE details]

\* The target block on the candle at idx, when the loop body reaches it.
TargetExit(candle, idx, cfg) ==
  LET close == applyPriceRounding(candle.close, cfg)
      hit   == /\ cfg.targetExitConfig.enabled
               /\ ~targetHit
               /\ activeTargetOrder = Null
               /\ TargetReached(trade.type, candle, trade.target)
      order == IF hit THEN OrderAtClose(candle, idx, cfg)
                      ELSE activeTargetOrder
      details == IF hit
                   THEN [targetExitDetails EXCEPT
                           !.targetHit = TRUE,
                           !.hitCandleClose = candle.close,
                           !.hitCandleIndex = idx,
                           !.originalLimitPrice = close]
                   ELSE targetExitDetails
      check == order # Null /\ SkipOneCandlePassed(idx, order)
      fills == check /\ ExitOrderFills(trade.type, candle, order)
      move  == /\ check /\ ~fills
               /\ targetExitDetails.dynamicTargetAdjustment
               /\ TargetPriceBetter(trade.type, close, order.price)
  IN [fills |-> fills,
      hit |-> hit,
      fillPrice |-> IF fills THEN order.price ELSE 0,
      order |-> IF move THEN [order EXCEPT !.price = close,
                                           !.priceUpdates = @ + 1]
                        ELSE order,
      details |-> IF fills
                    THEN [details EXCEPT !.orderFillDetails =
                                           FillDetails(order, idx)]
                  ELSE IF move
                    THEN [details EXCEPT !.totalPriceUpdates = @ + 1]
                  ELSE details]

\* a stop loss block that places its order only when the breach candle
\* closes at or beyond the stop
StopLossExitOnCloseBeyond(candle, idx, cfg) ==
  LET close == applyPriceRounding(candle.close, cfg)
      breach == /\ ~stopLossBreach
                /\ StopLossReached(trade.type, candle, trade.stopLoss)
      order == IF breach /\ (IF trade.type = "long"
                                THEN candle.close <= trade.stopLoss
                                ELSE candle.close >= trade.stopLoss)
                 THEN OrderAtClose(candle, idx, cfg)
                 ELSE activeStopLossOrder
      details == IF breach
                   THEN [stopLossExitDetails EXCEPT
                           !.stopLossBreached = TRUE,
                           !.breachCandleClose = candle.close,
                           !.breachCandleIndex = idx,
                           !.originalLimitPrice = close]
                   ELSE stopLossExitDetails
      check == order # Null /\ SkipOneCandlePassed(idx, order)
      fills == check /\ ExitOrderFills(trade.type, candle, order)
      move  == /\ check /\ ~fills
               /\ cfg.stopLossExitConfig.dynamicStopLossAdjustment
               /\ StopLossPriceWorse(trade.type, close, order.price)
      trips == ~fills /\ CircuitBreakerTrips(trade, candle, cfg)
      moved == IF move THEN [details EXCEPT !.totalPriceUpdates = @ + 1]
                       ELSE details
  IN [fills |-> fills,
      trips |-> trips,
      breach |-> breach,
      fillPrice |-> IF fills THEN order.price ELSE 0,
      order |-> IF move THEN [order EXCEPT !.price = close,
                                           !.priceUpdates = @ + 1]
                        ELSE order,
      details |-> IF fills
                    THEN [details EXCEPT !.orderFillDetails =
                                           FillDetails(order, idx)]
                  ELSE IF trips
                    THEN [moved EXCEPT !.circuitBreakerTriggered = TRUE]
                  ELSE moved]

\* a stop loss block whose circuit breaker is looked at before the fill of
\* the stop loss order
StopLossExitBreakerFirst(candle, idx, cfg) ==
  LET close == applyPriceRounding(candle.close, cfg)
      breach == /\ ~stopLossBreach
                /\ StopLossReached(trade.type, candle, trade.stopLoss)
      order == IF breach THEN OrderAtClose(candle, idx, cfg)
                         ELSE activeStopLossOrder
      details == IF breach
                   THEN [stopLossExitDetails EXCEPT
                           !.stopLossBreached = TRUE,
                           !.breachCandleClose = candle.close,
                           !.breachCandleIndex = idx,
                           !.originalLimitPrice = close]
                   ELSE stopLossExitDetails
      check == order # Null /\ SkipOneCandlePassed(idx, order)
      trips == CircuitBreakerTrips(trade, candle, cfg)
      fills == ~trips /\ check
                 /\ ExitOrderFills(trade.type, candle, order)
      move  == /\ check /\ ~fills
               /\ cfg.stopLossExitConfig.dynamicStopLossAdjustment
               /\ StopLossPriceWorse(trade.type, close, order.price)
      moved == IF move THEN [details EXCEPT !.totalPriceUpdates = @ + 1]
                       ELSE details
  IN [fills |-> fills,
      trips |-> trips,
      breach |-> breach,
      fillPrice |-> IF fills THEN order.price ELSE 0,
      order |-> IF move THEN [order EXCEPT !.price = close,
                                           !.priceUpdates = @ + 1]
                        ELSE order,
      details |-> IF fills
                    THEN [details EXCEPT !.orderFillDetails =
                                           FillDetails(order, idx)]
                  ELSE IF trips
                    THEN [moved EXCEPT !.circuitBreakerTriggered = TRUE]
                  ELSE moved]

\* The stop loss block and the circuit breaker on the candle at idx, when
\* the loop body reaches them.
StopLossExit(candle, idx, cfg) ==
  LET close == applyPriceRounding(candle.close, cfg)
      breach == /\ ~stopLossBreach
                /\ StopLossReached(trade.type, candle, trade.stopLoss)
      order == IF breach THEN OrderAtClose(candle, idx, cfg)
                         ELSE activeStopLossOrder
      details == IF breach
                   THEN [stopLossExitDetails EXCEPT
                           !.stopLossBreached = TRUE,
                           !.breachCandleClose = candle.close,
                           !.breachCandleIndex = idx,
                           !.originalLimitPrice = close]
                   ELSE stopLossExitDetails
      check == order # Null /\ SkipOneCandlePassed(idx, order)
      fills == check /\ ExitOrderFills(trade.type, candle, order)
      move  == /\ check /\ ~fills
               /\ cfg.stopLossExitConfig.dynamicStopLossAdjustment
               /\ StopLossPriceWorse(trade.type, close, order.price)
      trips == ~fills /\ CircuitBreakerTrips(trade, candle, cfg)
      moved == IF move THEN [details EXCEPT !.totalPriceUpdates = @ + 1]
                       ELSE details
  IN [fills |-> fills,
      trips |-> trips,
      breach |-> breach,
      fillPrice |-> IF fills THEN order.price ELSE 0,
      order |-> IF move THEN [order EXCEPT !.price = close,
                                           !.priceUpdates = @ + 1]
                        ELSE order,
      details |-> IF fills
                    THEN [details EXCEPT !.orderFillDetails =
                                           FillDetails(order, idx)]
                  ELSE IF trips
                    THEN [moved EXCEPT !.circuitBreakerTriggered = TRUE]
                  ELSE moved]

\* a block the loop body does not reach leaves its variables as they are
TargetUntouched ==
  [fills |-> FALSE, hit |-> FALSE, fillPrice |-> 0,
   order |-> activeTargetOrder, details |-> targetExitDetails]

StopLossUntouched ==
  [fills |-> FALSE, trips |-> FALSE, breach |-> FALSE, fillPrice |-> 0,
   order |-> activeStopLossOrder, details |-> stopLossExitDetails]

\* the values of the variables of simulateTrade after a pass of its loop
\* body, and whether the pass ended in a break
PassOutcome(candle, cfg, pre, tgt, sl) ==
  [broke |-> pre.fills \/ pre.forced \/ tgt.fills \/ sl.fills \/ sl.trips,
   preMarketExitOrder |-> pre.order,
   preMarketExitDetails |-> pre.details,
   targetHit |-> targetHit \/ tgt.hit,
   activeTargetOrder |-> tgt.order,
   targetExitDetails |-> tgt.details,
   stopLossBreach |-> stopLossBreach \/ sl.breach,
   activeStopLossOrder |-> sl.order,
   stopLossExitDetails |-> sl.details,
   exitPrice |->
     IF pre.fills THEN pre.fillPrice
     ELSE IF pre.forced THEN applyPriceRounding(candle.close, cfg)
     ELSE IF tgt.fills THEN tgt.fillPrice
     ELSE IF sl.fills THEN sl.fillPrice
     ELSE IF sl.trips
       THEN applyPriceRounding(AdverseExtreme(trade.type, candle), cfg)
     ELSE exitPrice,
   exitTime |->
     IF pre.fills \/ pre.forced \/ tgt.fills \/ sl.fills \/ sl.trips
       THEN formatTimestamp(candle.timestamp_readable_IST)
       ELSE exitTime,
   exitReason |->
     IF pre.fills THEN Reason("pre-market exit limit order filled")
     ELSE IF pre.forced THEN Reason("forced market exit")
     ELSE IF tgt.fills THEN Reason("target limit order filled")
     ELSE IF sl.fills THEN Reason("stop loss limit order filled")
     ELSE IF sl.trips
       THEN CircuitBreakerReason(cfg.stopLossExitConfig.maxLossPercent)
     ELSE exitReason]

\* a stop loss logic that still runs on the candle that places the target
\* order, and stops on the next
StopLossUntilNextCandle(candle, idx, cfg, pre, tgt) ==
  PassOutcome(candle, cfg, pre, tgt,
              IF pre.fills \/ pre.forced \/ tgt.fills
                   \/ ~cfg.stopLossExitConfig.enabled
                   \/ activeTargetOrder # Null
                THEN StopLossUntouched
                ELSE StopLossExit(candle, idx, cfg))

\* a stop loss logic that runs whether or not a target order is active
StopLossBesideTargetOrder(candle, idx, cfg, pre, tgt) ==
  PassOutcome(candle, cfg, pre, tgt,
              IF pre.fills \/ pre.forced \/ tgt.fills
                   \/ ~cfg.stopLossExitConfig.enabled
                THEN StopLossUntouched
                ELSE StopLossExit(candle, idx, cfg))

\* the stop loss logic runs only while no target order is active
AfterTarget(candle, idx, cfg, pre, tgt) ==
  PassOutcome(candle, cfg, pre, tgt,
              IF pre.fills \/ pre.forced \/ tgt.fills
                   \/ ~cfg.stopLossExitConfig.enabled \/ tgt.order # Null
                THEN StopLossUntouched
                ELSE StopLossExit(candle, idx, cfg))

\* a filled pre-market order and a forced exit break out of the loop
AfterPreMarket(candle, idx, cfg, pre) ==
  AfterTarget(candle, idx, cfg, pre,
              IF pre.fills \/ pre.forced THEN TargetUntouched
                                         ELSE TargetExit(candle, idx, cfg))

\* the loop body of simulateTrade on the candle at index idx
SimulatePass(candle, idx, cfg) ==
  AfterPreMarket(candle, idx, cfg, PreMarketExit(candle, idx, cfg))

\* the loop of simulateTrade goes on, or breaks at this candle
Advance(after) ==
  /\ pc' = IF after.broke THEN "exit" ELSE "simulate"
  /\ i' = IF after.broke THEN i ELSE i + 1
  /\ preMarketExitOrder' = after.preMarketExitOrder
  /\ preMarketExitDetails' = after.preMarketExitDetails
  /\ targetHit' = after.targetHit
  /\ activeTargetOrder' = after.activeTargetOrder
  /\ targetExitDetails' = after.targetExitDetails
  /\ stopLossBreach' = after.stopLossBreach
  /\ activeStopLossOrder' = after.activeStopLossOrder
  /\ stopLossExitDetails' = after.stopLossExitDetails
  /\ exitPrice' = after.exitPrice
  /\ exitTime' = after.exitTime
  /\ exitReason' = after.exitReason
  /\ dayData' = IF after.broke THEN dayData
                ELSE Keep(dayData, Min2(i + 1, len - 1))
  /\ UNCHANGED <<backtestVars, len, scanVars, trade, entryIndex>>

\* one pass of the loop of simulateTrade, over the candle at index i
SimulateCandle ==
  /\ pc = "simulate"
  /\ i < len
  /\ Advance(SimulatePass(dayData[i], i, config))

(***************************************************************************)
(* The end of simulateTrade: the trade result.                             *)
(***************************************************************************)
\* shares bought with a capital that shrinks with every day already recorded
MaxSharesOfShrunkCapital(capital, price) ==
  (capital.initial * capital.utilizationPercent
     * (IF capital.leverage = 0 THEN 1 ELSE capital.leverage))
    \div (100 * price * (1 + Len(allTrades)))

\* Math.floor(leveragedCapital / trade.entry.price)
MaxShares(capital, price) ==
  (capital.initial * capital.utilizationPercent
     * (IF capital.leverage = 0 THEN 1 ELSE capital.leverage))
    \div (100 * price)

\* (amount * brokerageFeePercent) / 100, times MoneyScale
BrokerageFee(amount, capital) == amount * capital.brokerageFeePercent

\* shares * (exit - entry), or the reverse for a short trade, times
\* MoneyScale
GrossProfit(type, entryPrice, exitAt, shares) ==
  (IF type = "long" THEN (exitAt - entryPrice) * shares
                    ELSE (entryPrice - exitAt) * shares) * MoneyScale

\* a net profit that leaves the exit fee out
NetProfitBeforeExitFee(grossProfit, entryBrokerageFee, exitBrokerageFee) ==
  grossProfit - entryBrokerageFee

\* grossProfit - (entryBrokerageFee + exitBrokerageFee)
NetProfit(grossProfit, entryBrokerageFee, exitBrokerageFee) ==
  grossProfit - (entryBrokerageFee + exitBrokerageFee)

(***************************************************************************)
(* JavaScript numbers that come out of a division.  A quotient is kept as  *)
(* times * num / den, unreduced; a division by 0 gives NaN (0 / 0) or an   *)
(* infinity; a mean of quotients is kept as the list of its terms.         *)
(***************************************************************************)
NaN == [nan |-> TRUE]

Infinity(sign) == [infinite |-> sign]

Number(n) == [num |-> n, den |-> 1, times |-> 1]

\* (n / d) * times
Quotient(n, d, times) ==
  IF d = 0
    THEN IF n = 0 THEN NaN ELSE Infinity(IF n > 0 THEN 1 ELSE -1)
    ELSE [num |-> n, den |-> d, times |-> times]

\* v || 0: NaN and 0 are falsy
OrZero(v) ==
  IF v = NaN \/ ("num" \in DOMAIN v /\ v.num = 0) THEN Number(0) ELSE v

\* terms.reduce((sum, term) => sum + term, 0) / terms.length, for one term
\* or more
MeanOf(terms) ==
  LET values == {terms[n] : n \in 1..Len(terms)}
  IN IF NaN \in values THEN NaN
     ELSE IF Infinity(1) \in values /\ Infinity(-1) \in values THEN NaN
     ELSE IF Infinity(1) \in values THEN Infinity(1)
     ELSE IF Infinity(-1) \in values THEN Infinity(-1)
     ELSE [meanOf |-> terms]

\* (profit / actualCapitalUsed) * 100, with actualCapitalUsed =
\* investedAmount / (capital.leverage || 1).  The profit is kept multiplied
\* by MoneyScale and the invested amount is not, so the percentage is kept
\* multiplied by MoneyScale, as the money amounts are.
ProfitPercentage(profit, investedAmount, capital) ==
  Quotient(profit * (IF capital.leverage = 0 THEN 1 ELSE capital.leverage),
           investedAmount, 100)

\* the result simulateTrade returns, with these details of the three exits
TradeResultWith(date, t, exitAt, exitAtTime, reason, capital, details) ==
  LET maxShares == MaxShares(capital, t.entry.price)
      entryBrokerageFee == BrokerageFee(maxShares * t.entry.price, capital)
      exitBrokerageFee  == BrokerageFee(maxShares * exitAt, capital)
      grossProfit == GrossProfit(t.type, t.entry.price, exitAt, maxShares)
      netProfit   == NetProfit(grossProfit, entryBrokerageFee,
                               exitBrokerageFee)
  IN [date |-> date,
      type |-> t.type,
      entry |-> [price |-> t.entry.price, time |-> t.entry.time,
                 fee |-> entryBrokerageFee],
      exit |-> [price |-> exitAt, time |-> exitAtTime, reason |-> reason,
                fee |-> exitBrokerageFee],
      target |-> t.target,
      stopLoss |-> t.stopLoss,
      shares |-> maxShares,
      leverage |-> IF capital.leverage = 0 THEN 1 ELSE capital.leverage,
      grossInvestedAmount |-> maxShares * t.entry.price,
      totalFees |-> entryBrokerageFee + exitBrokerageFee,
      riskPoints |-> RiskPoints(t),
      profit |-> netProfit,
      profitPercentage |->
        ProfitPercentage(netProfit, maxShares * t.entry.price, capital),
      grossProfit |-> grossProfit,
      netProfit |-> netProfit,
      grossProfitPercentage |->
        ProfitPercentage(grossProfit, maxShares * t.entry.price, capital),
      netProfitPercentage |->
        ProfitPercentage(netProfit, maxShares * t.entry.price, capital),
      breakout |-> t.breakoutDetails,
      stopLossExitDetails |-> details.stopLoss,
      targetExitDetails |-> details.target,
      preMarketExitDetails |-> details.preMarket]

TradeResult(date, t, exitAt, exitAtTime, reason, capital) ==
  TradeResultWith(date, t, exitAt, exitAtTime, reason, capital,
                  [stopLoss |-> stopLossExitDetails,
                   target |-> targetExitDetails,
                   preMarket |-> preMarketExitDetails])

\* an exit at the market close that takes the close as it is
MarketCloseUnrounded(lastCandle, cfg) ==
  [exitPrice  |-> lastCandle.close,
   exitTime   |-> formatTimestamp(lastCandle.timestamp_readable_IST),
   exitReason |-> Reason("market close")]

\* if (!exitPrice): the exit at the last candle's rounded close
MarketClose(lastCandle, cfg) ==
  [exitPrice  |-> applyPriceRounding(lastCandle.close, cfg),
   exitTime   |-> formatTimestamp(lastCandle.timestamp_readable_IST),
   exitReason |-> Reason("market close")]

\* the loop of simulateTrade has ended, by a break or at the last candle:
\* the trade exits at the market close if it has not exited, and the
\* result is returned to backtest
TradeExit ==
  /\ \/ pc = "exit"
     \/ pc = "simulate" /\ i >= len
  /\ LET atClose == exitPrice = 0
         close   == MarketClose(dayData[len - 1], config)
     IN ReturnOutcome(TradeResult(
          dates[dateIndex], trade,
          IF atClose THEN close.exitPrice ELSE exitPrice,
          IF atClose THEN close.exitTime ELSE exitTime,
          IF atClose THEN close.exitReason ELSE exitReason,
          config.capital))

(***************************************************************************)
(* calculateStats.  Money is in 1/MoneyScale of the money of the prices.   *)
(***************************************************************************)
\* trade.profit !== undefined || trade.netProfit !== undefined
IsActualTrade(o) == "profit" \in DOMAIN o \/ "netProfit" \in DOMAIN o

\* trade.netProfit || trade.profit || 0
NetOrProfit(t) == IF t.netProfit # 0 THEN t.netProfit ELSE t.profit

\* trade.grossProfit || trade.profit || 0
GrossOrProfit(t) == IF t.grossProfit # 0 THEN t.grossProfit ELSE t.profit

\* the sum of the numbers of a list
RECURSIVE Sum(_)
Sum(numbers) ==
  IF numbers = << >> THEN 0 ELSE Head(numbers) + Sum(Tail(numbers))

\* the sum of the numbers of a list at these indexes
RECURSIVE SumAt(_, _)
SumAt(numbers, indexes) ==
  IF indexes = {} THEN 0
  ELSE LET n == CHOOSE m \in indexes : TRUE
       IN numbers[n] + SumAt(numbers, indexes \ {n})

\* length > 0 ? total / length : 0
AverageOrZero(total, length) ==
  IF length > 0 THEN Quotient(total, length, 1) ELSE Number(0)

\* denominator > 0 ? (numerator / denominator) * 100 : 0
RateOrZero(numerator, denominator) ==
  IF denominator > 0 THEN Quotient(numerator, denominator, 100)
                     ELSE Number(0)

\* a test of the winning days that takes a profit of 0 for a win
IsNotLosingDay(t) == NetOrProfit(t) >= 0

\* winningDays and losingDays
IsWinningDay(t) == NetOrProfit(t) > 0

IsLosingDay(t) == NetOrProfit(t) <= 0

\* a grouping that keeps, per exit reason, the trade it saw last
LastTradeByExitReason(actualTrades) ==
  LET reasons == {actualTrades[n].exit.reason : n \in 1..Len(actualTrades)}
      last(reason) == CHOOSE n \in 1..Len(actualTrades) :
                        /\ actualTrades[n].exit.reason = reason
                        /\ \A m \in n + 1..Len(actualTrades) :
                             actualTrades[m].exit.reason # reason
  IN [reason \in reasons |->
        [count |-> 1,
         totalProfit |-> NetOrProfit(actualTrades[last(reason)]),
         averageProfit |-> Quotient(NetOrProfit(actualTrades[last(reason)]),
                                    1, 1)]]

\* exitReasons: per exit reason of a trade, the count of its trades, the
\* total of their profits and the average
StatisticsByExitReason(actualTrades) ==
  LET profits == [n \in 1..Len(actualTrades) |-> NetOrProfit(actualTrades[n])]
      reasons == {actualTrades[n].exit.reason : n \in 1..Len(actualTrades)}
      of(reason) == {n \in 1..Len(actualTrades) :
                       actualTrades[n].exit.reason = reason}
  IN [reason \in reasons |->
        [count |-> Cardinality(of(reason)),
         totalProfit |-> SumAt(profits, of(reason)),
         averageProfit |-> Quotient(SumAt(profits, of(reason)),
                                    Cardinality(of(reason)), 1)]]

\* stopLossExitAnalysis
StopLossExitAnalysis(actualTrades, cfg) ==
  LET all == 1..Len(actualTrades)
      profits == [n \in all |-> actualTrades[n].netProfit]
      updates == [n \in all |->
                    actualTrades[n].stopLossExitDetails.totalPriceUpdates]
      limitExits == {n \in all : actualTrades[n].exit.reason
                                   = Reason("stop loss limit order filled")}
      breakerExits == {n \in all :
        actualTrades[n].stopLossExitDetails.circuitBreakerTriggered}
      breached == {n \in all :
        actualTrades[n].stopLossExitDetails.stopLossBreached}
      adjusted == {n \in all : updates[n] > 0}
  IN IF ~cfg.stopLossExitConfig.enabled THEN Null
     ELSE [enabled |-> TRUE,
           skipOneCandleLogic |-> TRUE,
           dynamicStopLossAdjustment |->
             cfg.stopLossExitConfig.dynamicStopLossAdjustment,
           totalDynamicStopLossExits |-> Cardinality(limitExits),
           totalTraditionalStopLossExits |-> 0,
           totalCircuitBreakerExits |-> Cardinality(breakerExits),
           totalTradesWithStopLossBreach |-> Cardinality(breached),
           totalTradesWithDynamicAdjustment |-> Cardinality(adjusted),
           averageProfitDynamicStopLossExits |->
             AverageOrZero(SumAt(profits, limitExits),
                           Cardinality(limitExits)),
           averageProfitTraditionalExits |-> Number(0),
           averageProfitCircuitBreakerExits |->
             AverageOrZero(SumAt(profits, breakerExits),
                           Cardinality(breakerExits)),
           averageStopLossPriceUpdates |->
             AverageOrZero(SumAt(updates, adjusted), Cardinality(adjusted)),
           config |-> cfg.stopLossExitConfig]

\* targetExitAnalysis
TargetExitAnalysis(actualTrades, cfg) ==
  LET all == 1..Len(actualTrades)
      profits == [n \in all |-> actualTrades[n].netProfit]
      updates == [n \in all |->
                    actualTrades[n].targetExitDetails.totalPriceUpdates]
      limitExits == {n \in all : actualTrades[n].exit.reason
                                   = Reason("target limit order filled")}
      hit == {n \in all : actualTrades[n].targetExitDetails.targetHit}
      adjusted == {n \in all : updates[n] > 0}
  IN IF ~cfg.targetExitConfig.enabled THEN Null
     ELSE [enabled |-> TRUE,
           skipOneCandleLogic |-> TRUE,
           dynamicTargetAdjustment |->
             cfg.targetExitConfig.dynamicTargetAdjustment,
           totalTargetLimitOrderExits |-> Cardinality(limitExits),
           totalTradesWithTargetHit |-> Cardinality(hit),
           totalTradesWithDynamicAdjustment |-> Cardinality(adjusted),
           targetLimitOrderFillRate |->
             RateOrZero(Cardinality(limitExits), Cardinality(hit)),
           averageProfitTargetLimitOrderExits |->
             AverageOrZero(SumAt(profits, limitExits),
                           Cardinality(limitExits)),
           averageTargetPriceUpdates |->
             AverageOrZero(SumAt(updates, adjusted), Cardinality(adjusted)),
           config |-> cfg.targetExitConfig]

\* preMarketExitAnalysis, but for its two averages of price improvements
PreMarketExitAnalysis(actualTrades, cfg) ==
  LET all == 1..Len(actualTrades)
      profits == [n \in all |-> actualTrades[n].netProfit]
      updates == [n \in all |->
                    actualTrades[n].preMarketExitDetails.totalPriceUpdates]
      limitExits == {n \in all : actualTrades[n].exit.reason
                       = Reason("pre-market exit limit order filled")}
      forcedExits == {n \in all : actualTrades[n].exit.reason
                                    = Reason("forced market exit")}
      ordered == {n \in all :
                    actualTrades[n].preMarketExitDetails.orderPlaced}
      repriced == {n \in all :
        /\ actualTrades[n].preMarketExitDetails.dynamicPriceAdjustment
        /\ updates[n] > 0}
      repricedFilled == {n \in repriced :
        actualTrades[n].preMarketExitDetails.orderFilled}
  IN IF ~cfg.marketExitTime.enabled THEN Null
     ELSE [enabled |-> TRUE,
           skipOneCandleLogic |-> TRUE,
           dynamicPriceAdjustment |->
             cfg.marketExitTime.dynamicPriceAdjustment,
           totalPreMarketExits |-> Cardinality(limitExits),
           totalForcedMarketExits |-> Cardinality(forcedExits),
           totalTradesWithPreMarketOrders |-> Cardinality(ordered),
           totalTradesWithDynamicPricing |-> Cardinality(repriced),
           preMarketOrderFillRate |->
             RateOrZero(Cardinality(limitExits), Cardinality(ordered)),
           averageProfitPreMarketExits |->
             AverageOrZero(SumAt(profits, limitExits),
                           Cardinality(limitExits)),
           averageProfitForcedExits |->
             AverageOrZero(SumAt(profits, forcedExits),
                           Cardinality(forcedExits)),
           preExitLimitOrderMinutes |-> PreExitMinutes(cfg),
           averagePriceUpdatesPerTrade |->
             AverageOrZero(SumAt(updates, repriced), Cardinality(repriced)),
           dynamicPricingFillRate |->
             RateOrZero(Cardinality(repricedFilled), Cardinality(repriced))]

\* trade.breakout?.entryOrderDetails
HasEntryOrderDetails(t) ==
  /\ "breakout" \in DOMAIN t
  /\ "entryOrderDetails" \in DOMAIN t.breakout

\* entryOrderAnalysis
EntryOrderAnalysis(actualTrades, cfg) ==
  LET all == 1..Len(actualTrades)
      withOrders == {n \in all : HasEntryOrderDetails(actualTrades[n])}
      updates == [n \in withOrders |->
                    actualTrades[n].breakout.entryOrderDetails.priceUpdates]
      improvements == [n \in withOrders |->
        LET details == actualTrades[n].breakout.entryOrderDetails
        IN IF actualTrades[n].type = "long"
             THEN details.originalOrderPrice - details.finalOrderPrice
             ELSE details.finalOrderPrice - details.originalOrderPrice]
      repriced == {n \in withOrders : updates[n] > 0}
  IN IF withOrders = {} THEN Null
     ELSE [enabled |-> TRUE,
           skipOneCandleLogic |-> TRUE,
           dynamicEntryAdjustment |->
             cfg.entryOrderConfig.dynamicEntryAdjustment,
           totalTradesWithEntryOrders |-> Cardinality(withOrders),
           totalTradesWithEntryPriceUpdates |-> Cardinality(repriced),
           entryOrderFillRate |->
             RateOrZero(Cardinality(withOrders), Len(actualTrades)),
           averageEntryPriceUpdates |->
             AverageOrZero(SumAt(updates, repriced), Cardinality(repriced)),
           averageEntryPriceImprovement |->
             AverageOrZero(SumAt(improvements, withOrders),
                           Cardinality(withOrders)),
           dynamicEntryPricingFillRate |->
             IF repriced # {}
               THEN Quotient(Cardinality(repriced), Cardinality(withOrders),
                             100)
               ELSE Number(0),
           config |-> cfg.entryOrderConfig]

\* the sum, over the trades, of profit / (riskPoints * shares), divided by
\* the number of trades; 0 when there is no trade
ActualAverageRR(actualTrades) ==
  IF actualTrades = << >> THEN Number(0)
  ELSE MeanOf([n \in 1..Len(actualTrades) |->
                 Quotient(NetOrProfit(actualTrades[n]),
                          actualTrades[n].riskPoints * actualTrades[n].shares,
                          1)])

\* the average over the trades of a percentage || 0; 0 when there is no trade
AveragePercentage(percentages) ==
  IF percentages = << >> THEN Number(0)
  ELSE MeanOf([n \in 1..Len(percentages) |-> OrZero(percentages[n])])

\* trade.breakoutDetected && !trade.profit && !trade.netProfit
IsBreakoutWithoutEntry(o) ==
  /\ "breakoutDetected" \in DOMAIN o
  /\ o.breakoutDetected
  /\ "profit" \in DOMAIN o => o.profit = 0
  /\ "netProfit" \in DOMAIN o => o.netProfit = 0

\* trade.breakoutOutsideTimeRange
IsBreakoutOutsideTimeRange(o) ==
  "breakoutOutsideTimeRange" \in DOMAIN o /\ o.breakoutOutsideTimeRange

\* trade.minimumStopLossRejection
IsMinimumStopLossRejection(o) ==
  "minimumStopLossRejection" \in DOMAIN o /\ o.minimumStopLossRejection

calculateStats(trades, capital, cfg) ==
  LET actualTrades == SelectSeq(trades, IsActualTrade)
      count == Len(actualTrades)
      totalGrossProfit ==
        Sum([n \in 1..count |-> GrossOrProfit(actualTrades[n])])
      totalNetProfit ==
        Sum([n \in 1..count |-> NetOrProfit(actualTrades[n])])
      winningDays == SelectSeq(actualTrades, IsWinningDay)
      losingDays  == SelectSeq(actualTrades, IsLosingDay)
      winRate == RateOrZero(Len(winningDays), count)
      minimumStopLossRejections ==
        Cardinality({n \in 1..Len(trades) :
                       IsMinimumStopLossRejection(trades[n])})
  IN [initialCapital |-> capital.initial,
      leverage |-> IF capital.leverage = 0 THEN 1 ELSE capital.leverage,
      brokerageFeePercent |-> capital.brokerageFeePercent,
      finalBalance |-> capital.initial * MoneyScale + totalNetProfit,
      totalProfit |-> totalNetProfit,
      totalGrossProfit |-> totalGrossProfit,
      totalNetProfit |-> totalNetProfit,
      totalFees |-> Sum([n \in 1..count |-> actualTrades[n].totalFees]),
      totalReturnPercentage |->
        Quotient(totalNetProfit, capital.initial * MoneyScale, 100),
      totalGrossReturnPercentage |->
        Quotient(totalGrossProfit, capital.initial * MoneyScale, 100),
      totalNetReturnPercentage |->
        Quotient(totalNetProfit, capital.initial * MoneyScale, 100),
      averageProfitPerTrade |-> AverageOrZero(totalNetProfit, count),
      averageGrossProfitPerTrade |-> AverageOrZero(totalGrossProfit, count),
      averageNetProfitPerTrade |-> AverageOrZero(totalNetProfit, count),
      averageProfitPercentagePerTrade |->
        AveragePercentage([n \in 1..count |->
                             actualTrades[n].netProfitPercentage]),
      averageGrossProfitPercentagePerTrade |->
        AveragePercentage([n \in 1..count |->
                             actualTrades[n].grossProfitPercentage]),
      averageNetProfitPercentagePerTrade |->
        AveragePercentage([n \in 1..count |->
                             actualTrades[n].netProfitPercentage]),
      totalWinningDays |-> Len(winningDays),
      totalLosingDays |-> Len(losingDays),
      winningDays |-> winningDays,
      losingDays |-> losingDays,
      positiveDays |-> Len(winningDays),
      negativeDays |-> Len(losingDays),
      statisticsByExitReason |-> StatisticsByExitReason(actualTrades),
      riskRewardAnalysis |->
        [actualAverageRR |-> ActualAverageRR(actualTrades),
         plannedRR |-> IF count = 0 THEN 0
                       ELSE IF cfg.riskRewardRatio = 0 THEN 1
                       ELSE cfg.riskRewardRatio,
         winRate |-> [winRate EXCEPT !.times = 1]],
      winRate |-> winRate,
      breakoutsWithoutEntry |->
        Cardinality({n \in 1..Len(trades) :
                       IsBreakoutWithoutEntry(trades[n])}),
      breakoutsOutsideTimeRange |->
        Cardinality({n \in 1..Len(trades) :
                       IsBreakoutOutsideTimeRange(trades[n])}),
      minimumStopLossRejections |-> minimumStopLossRejections,
      stopLossExitAnalysis |-> StopLossExitAnalysis(actualTrades, cfg),
      targetExitAnalysis |-> TargetExitAnalysis(actualTrades, cfg),
      preMarketExitAnalysis |-> PreMarketExitAnalysis(actualTrades, cfg),
      entryOrderAnalysis |-> EntryOrderAnalysis(actualTrades, cfg),
      priceRoundingConfig |-> cfg.priceRounding,
      minimumStopLossConfig |->
        [enabled |-> cfg.minimumStopLossPercent > 0,
         minimumStopLossPercent |-> cfg.minimumStopLossPercent,
         totalRejections |-> minimumStopLossRejections]]

\* backtest has processed every date: it calls calculateStats and returns
AllDatesDone ==
  /\ pc = "dates"
  /\ dateIndex > Len(dates)
  /\ stats' = calculateStats(allTrades, config.capital, config)
  /\ pc' = "done"
  /\ UNCHANGED <<config, stockData, tape, dates, dateIndex, allTrades,
                 gridVars, dayData, len, scanVars, simVars>>

Next ==
  \/ StartDay
  \/ ScanCandle
  \/ EndOfDay
  \/ SimulateCandle
  \/ TradeExit
  \/ AllDatesDone

Spec == Init /\ [][Next]_vars

(***************************************************************************)
(* The backtest of a stockData that gives the same candles on every day    *)
(* that has candles: analyzeTradingDay runs on them once per such day.     *)
(***************************************************************************)
TapeLen == 8

TapeShapes ==
  { Shape(10000, 10000,  8600,  8800, 1),     \* falls
    Shape(10000, 11400, 10000, 11200, 2),     \* rises
    Shape(10000, 10500, 10000, 10300, 1) }    \* lifts

\* a day without data, then two days of the same candles
SameCandlesLayout == <<"null", "candles", "candles">>

InitSameCandles ==
  /\ config \in Configs
  /\ stockData = SameCandlesLayout
  /\ tape \in [1..TapeLen -> TapeShapes]
  /\ BacktestEntered
  /\ NoGridSearch

StartDayOfTape == StartDayFrom({tape[1]})

ScanCandleOfTape == len < Len(tape) /\ ScanCandleFrom({tape[len + 1]})

EndOfTape == len = Len(tape) /\ EndOfDay

NextSameCandles ==
  \/ StartDayOfTape
  \/ ScanCandleOfTape
  \/ EndOfTape
  \/ SimulateCandle
  \/ TradeExit
  \/ AllDatesDone

SpecSameCandles == InitSameCandles /\ [][NextSameCandles]_vars

(***************************************************************************)
(* The backtest of one day of a falling market: candles that make lower    *)
(* and lower lows after an entry has filled, under the default             *)
(* configuration.                                                          *)
(***************************************************************************)
FallingTapeLen == 7

FallingShapes ==
  { Shape(10000, 10000,  8600,  8800, 1),     \* falls
    Shape(10000, 11400, 10000, 11200, 2),     \* rises
    Shape(10000, 10000,  9500,  9700, 1),     \* dips
    Shape( 8600,  8600,  8000,  8200, 1),     \* slips
    Shape( 8000,  8000,  7400,  7600, 1) }    \* plunges

InitFallingDay ==
  /\ config = defaultConfig
  /\ stockData \in StockDataLayouts
  /\ tape \in [1..FallingTapeLen -> FallingShapes]
  /\ BacktestEntered
  /\ NoGridSearch

SpecFallingDay == InitFallingDay /\ [][NextSameCandles]_vars

(***************************************************************************)
(* calculateStats on its own: the statistics of lists of outcomes as       *)
(* analyzeTradingDay returns them, one outcome per date, with winning and  *)
(* losing trades of several exit reasons and days without a trade.         *)
(***************************************************************************)
MaxOutcomes == 3

EveryDayLayout == [d \in 1..MaxOutcomes |-> "candles"]

\* the entry, the stop loss and the exit of the trades of the lists
SampleExits ==
  { [type |-> "long", entryPrice |-> 9500, stopLoss |-> 8500,
     exitPrice |-> 10500, reason |-> Reason("target limit order filled")],
    [type |-> "long", entryPrice |-> 9500, stopLoss |-> 8500,
     exitPrice |-> 8500, reason |-> Reason("stop loss limit order filled")],
    [type |-> "short", entryPrice |-> 10000, stopLoss |-> 11000,
     exitPrice |-> 9000, reason |-> Reason("market close")],
    [type |-> "short", entryPrice |-> 10000, stopLoss |-> 11000,
     exitPrice |-> 10000, reason |-> Reason("market close")] }

\* the details of the three exits of a trade that left for this reason
SampleDetails(reason, cfg) ==
  [stopLoss |->
     [enabled |-> cfg.stopLossExitConfig.enabled,
      stopLossBreached |-> reason = Reason("stop loss limit order filled"),
      breachCandleClose |-> 0,
      breachCandleIndex |-> -1,
      originalLimitPrice |-> 0,
      totalPriceUpdates |->
        IF reason = Reason("stop loss limit order filled") THEN 1 ELSE 0,
      circuitBreakerTriggered |-> FALSE,
      orderFillDetails |-> Null],
   target |->
     [enabled |-> cfg.targetExitConfig.enabled,
      dynamicTargetAdjustment |-> cfg.targetExitConfig.dynamicTargetAdjustment,
      targetHit |-> reason = Reason("target limit order filled"),
      hitCandleClose |-> 0,
      hitCandleIndex |-> -1,
      originalLimitPrice |-> 0,
      totalPriceUpdates |-> 0,
      orderFillDetails |-> Null],
   preMarket |->
     [enabled |-> cfg.marketExitTime.enabled,
      dynamicPriceAdjustment |-> cfg.marketExitTime.dynamicPriceAdjustment,
      orderPlaced |-> FALSE,
      orderPlacementPrice |-> 0,
      orderPlacementCandleIndex |-> -1,
      orderFilled |-> FALSE,
      orderFillPrice |-> 0,
      orderFillCandleIndex |-> -1,
      totalPriceUpdates |-> 0]]

\* the result of a trade that entered on the candle 3 of its day and left
\* on the candle 6
SampleTrade(date, sample, cfg) ==
  LET entry ==
        [type |-> sample.type,
         entry |-> [price |-> sample.entryPrice,
                    time |-> formatTimestamp(Timestamp(3))],
         target |-> 2 * sample.entryPrice - sample.stopLoss,
         stopLoss |-> sample.stopLoss,
         breakoutDetails |->
           [breakoutTime |-> formatTimestamp(Timestamp(0)),
            breakoutPrice |-> sample.entryPrice,
            timeSincePreviousExtreme |-> 1,
            actualEntryTime |-> formatTimestamp(Timestamp(3)),
            actualEntryPrice |-> sample.entryPrice,
            entryOrderDetails |->
              [orderPlacedTime |-> formatTimestamp(Timestamp(1)),
               orderPlacedAtCandle |-> 1,
               originalOrderPrice |-> sample.entryPrice,
               finalOrderPrice |-> sample.entryPrice,
               priceUpdates |-> 0]]]
  IN TradeResultWith(date, entry, sample.exitPrice,
                     formatTimestamp(Timestamp(6)), sample.reason,
                     cfg.capital, SampleDetails(sample.reason, cfg))

\* what analyzeTradingDay may have returned for this date
SampleOutcomes(date, cfg) ==
  {SampleTrade(date, sample, cfg) : sample \in SampleExits}
    \cup {NoDataAvailable(date),
          StopLossTooTight(date, "short", 9700,
                           CandleAt(Shape(10000, 10000, 9500, 9700, 1), 1),
                           cfg)}

\* backtest has processed every date and is about to call calculateStats
InitStats ==
  /\ config \in Configs
  /\ stockData = EveryDayLayout
  /\ tape = << >>
  /\ dates = IncludedDates(stockData, config)
  /\ dateIndex = Len(dates) + 1
  /\ allTrades \in
       {list \in [1..Len(dates) ->
                   UNION {SampleOutcomes(d, config) : d \in 1..MaxOutcomes}] :
          \A n \in 1..Len(dates) :
            list[n] \in SampleOutcomes(dates[n], config)}
  /\ stats = Null
  /\ pc = "dates"
  /\ dayData = << >>
  /\ len = 0
  /\ previousHighTime = Null /\ previousHighPrice = 0
  /\ previousLowTime = Null /\ previousLowPrice = 0
  /\ lowestSinceLastHigh = 0 /\ highestSinceLastLow = 0
  /\ pendingLongBreakout = Null /\ pendingShortBreakout = Null
  /\ pendingLongEntryOrder = Null /\ pendingShortEntryOrder = Null
  /\ longEntry = Null /\ shortEntry = Null
  /\ invalidBreakouts = << >>
  /\ trade = Null /\ entryIndex = 0 /\ i = 0
  /\ preMarketExitOrder = Null /\ preMarketExitDetails = Null
  /\ targetHit = FALSE /\ activeTargetOrder = Null
  /\ targetExitDetails = Null
  /\ stopLossBreach = FALSE /\ activeStopLossOrder = Null
  /\ stopLossExitDetails = Null
  /\ exitPrice = Null /\ exitTime = Null /\ exitReason = Null
  /\ NoGridSearch

NextStats == AllDatesDone

SpecStats == InitStats /\ [][NextStats]_vars

(***************************************************************************)
(* The grid search: the main thread splits the parameter combinations into *)
(* chunks, starts one worker per chunk and handles the workers' messages.  *)
(* A combination is the number of its place in the list.                   *)
(***************************************************************************)
MaxCombinations == 12

MaxChunks == 5

\* the backtest of the model is not running
NoBacktest ==
  /\ config = defaultConfig
  /\ stockData \in StockDataLayouts
  /\ tape = << >>
  /\ BacktestEntered

\* a chunk size that rounds down
ChunkSizeRoundedDown(length, count) == length \div count

\* Math.ceil(combinations.length / numChunks)
ChunkSize(length, count) == (length + count - 1) \div count

\* the loop of splitIntoChunks from the index idx on
RECURSIVE ChunksFrom(_, _, _, _)
ChunksFrom(list, chunkSize, idx, count) ==
  IF idx >= count THEN << >>
  ELSE LET start == idx * chunkSize
           end   == Min2(start + chunkSize, Len(list))
       IN (IF start < Len(list) THEN <<SubSeq(list, start + 1, end)>>
                                ELSE << >>)
            \o ChunksFrom(list, chunkSize, idx + 1, count)

\* with numChunks = 0 the chunk size is Infinity or NaN and the loop does
\* not run
splitIntoChunks(list, count) ==
  IF count = 0 THEN << >>
  ELSE ChunksFrom(list, ChunkSize(Len(list), count), 0, count)

\* generateAllCombinations: a list of distinct combinations
CombinationLists == {[c \in 1..n |-> c] : n \in 0..MaxCombinations}

\* the main thread is about to call splitIntoChunks with the number of CPUs
InitChunks ==
  /\ NoBacktest
  /\ combinations \in CombinationLists
  /\ numChunks \in 1..MaxChunks
  /\ chunks = << >> /\ chunkIndex = 0
  /\ workers = << >> /\ inbox = << >>
  /\ results = << >> /\ completedWorkers = 0 /\ reports = << >>
  /\ existingBest = Null /\ globalBestResult = Null /\ resolved = {}

\* splitIntoChunks runs its loop and returns
SplitIntoChunks ==
  /\ chunkIndex < numChunks
  /\ chunks' = splitIntoChunks(combinations, numChunks)
  /\ chunkIndex' = numChunks
  /\ UNCHANGED <<config, stockData, tape, dates, dateIndex, allTrades, stats,
                 combinations, numChunks, workers, inbox, results,
                 completedWorkers, reports, existingBest, globalBestResult,
                 resolved, pc, dayData, len, scanVars, simVars>>

NextChunks == SplitIntoChunks

SpecChunks == InitChunks /\ [][NextChunks]_vars

(***************************************************************************)
(* The coordinator of the optimizer: the main thread gives each worker a   *)
(* slice of the combinations, the workers run their backtests and post     *)
(* 'progress' and 'results' messages, and the main thread handles the      *)
(* messages and the 'error' and 'exit' events of each worker one at a      *)
(* time, in the order each worker raised them.  A combination is its place *)
(* in the list with what runBacktest gives for it.                         *)
(***************************************************************************)
MaxWorkers == 3

MaxJobs == 4

\* what runBacktest gives for a combination: statistics with trades,
\* statistics without a trade, or an exception
BacktestKinds == {"profit", "no trades", "throws"}

\* generateCombinations: a list of combinations, never empty
JobLists ==
  UNION {[1..n -> BacktestKinds] : n \in 1..MaxJobs}

\* the main thread's number of workers
numWorkers == Len(workers)

\* the result a worker pushes for a combination
ResultOf(combination, kind) ==
  [config |-> combination,
   totalNetProfit |-> IF kind = "profit" THEN combination ELSE 0,
   totalTrades |-> IF kind = "profit" THEN 1 ELSE 0]

\* results.filter(r => r.totalNetProfit !== undefined &&
\*                     !isNaN(r.totalNetProfit) && r.totalTrades > 0)
ValidResults(list) ==
  SelectSeq(list, LAMBDA r : r.totalTrades > 0)

\* the slice of the worker w
WorkerCombinations(list, count, w) ==
  LET combinationsPerWorker == ChunkSize(Len(list), count)
      startIdx == (w - 1) * combinationsPerWorker
      endIdx   == Min2(startIdx + combinationsPerWorker, Len(list))
  IN [k \in 1..Max2(endIdx - startIdx, 0) |->
        [combination |-> startIdx + k, kind |-> list[startIdx + k]]]

\* the main thread has created the workers: one for every slice that is not
\* empty; an empty slice counts as a completed worker
InitCoordinator ==
  /\ NoBacktest
  /\ combinations \in JobLists
  /\ numChunks = 0 /\ chunks = << >> /\ chunkIndex = 0
  /\ \E count \in 1..MaxWorkers :
       /\ workers =
            [w \in 1..count |->
               LET slice == WorkerCombinations(combinations, count, w)
               IN [combinations |-> slice,
                   i |-> 0,
                   results |-> << >>,
                   state |-> IF slice = << >> THEN "not started"
                                              ELSE "running",
                   workerProgress |-> 0]]
       /\ inbox = [w \in 1..count |-> << >>]
       /\ completedWorkers =
            Cardinality({w \in 1..count :
                           WorkerCombinations(combinations, count, w) = << >>})
  /\ results = << >>
  /\ reports = << >>
  /\ existingBest = Null
  /\ globalBestResult = Null
  /\ resolved = {}

\* what the coordinator's steps leave alone
coordinatorUnchanged ==
  <<config, stockData, tape, dates, dateIndex, allTrades, stats,
    combinations, numChunks, chunks, chunkIndex, existingBest,
    globalBestResult, pc, dayData, len, scanVars, simVars>>

\* the worker w runs one pass of its loop: it posts its progress on every
\* fifth combination and on the last one, runs the backtest and keeps its
\* result unless the backtest throws
WorkerRuns(w) ==
  /\ w <= numWorkers
  /\ workers[w].state = "running"
  /\ workers[w].i < Len(workers[w].combinations)
  /\ LET me   == workers[w]
         job  == me.combinations[me.i + 1]
         told == me.i % 5 = 0 \/ me.i = Len(me.combinations) - 1
     IN /\ inbox' =
             [inbox EXCEPT ![w] =
                IF told
                  THEN Append(@, [type |-> "progress", completed |-> me.i + 1])
                  ELSE @]
        /\ workers' =
             [workers EXCEPT ![w].i = @ + 1,
                             ![w].results =
                               IF job.kind = "throws" THEN @
                               ELSE Append(@, ResultOf(job.combination,
                                                       job.kind))]
  /\ UNCHANGED <<results, completedWorkers, reports, resolved,
                 coordinatorUnchanged>>

\* the worker w has left its loop: it posts its results and its thread
\* ends, which raises 'exit' with the code 0
WorkerPostsResults(w) ==
  /\ w <= numWorkers
  /\ workers[w].state = "running"
  /\ workers[w].i = Len(workers[w].combinations)
  /\ inbox' = [inbox EXCEPT ![w] =
                 @ \o <<[type |-> "results", results |-> workers[w].results],
                        [type |-> "exit", code |-> 0]>>]
  /\ workers' = [workers EXCEPT ![w].state = "ended"]
  /\ UNCHANGED <<results, completedWorkers, reports, resolved,
                 coordinatorUnchanged>>

\* the thread of the worker w dies of an exception nothing catches: that
\* raises 'error' and then 'exit' with the code 1
WorkerThrows(w) ==
  /\ w <= numWorkers
  /\ workers[w].state = "running"
  /\ inbox' = [inbox EXCEPT ![w] =
                 @ \o <<[type |-> "error"], [type |-> "exit", code |-> 1]>>]
  /\ workers' = [workers EXCEPT ![w].state = "ended"]
  /\ UNCHANGED <<results, completedWorkers, reports, resolved,
                 coordinatorUnchanged>>

\* checkCompletion with this count, this list of results and these merged
\* workers: the final report
checkCompletion(count, list, merged) ==
  IF count = numWorkers
    THEN Append(reports, [results |-> list,
                          merged |-> merged,
                          written |-> ValidResults(list) # << >>])
    ELSE reports

\* the main thread handles a 'progress' message of the worker w
HandleProgress(w) ==
  /\ w <= numWorkers
  /\ inbox[w] # << >>
  /\ Head(inbox[w]).type = "progress"
  /\ inbox' = [inbox EXCEPT ![w] = Tail(@)]
  /\ workers' = [workers EXCEPT ![w].workerProgress = Head(inbox[w]).completed]
  /\ UNCHANGED <<results, completedWorkers, reports, resolved,
                 coordinatorUnchanged>>

\* the main thread handles the 'results' message of the worker w
HandleResults(w) ==
  /\ w <= numWorkers
  /\ inbox[w] # << >>
  /\ Head(inbox[w]).type = "results"
  /\ inbox' = [inbox EXCEPT ![w] = Tail(@)]
  /\ results' = results \o Head(inbox[w]).results
  /\ resolved' = resolved \cup {w}
  /\ completedWorkers' = completedWorkers + 1
  /\ reports' = checkCompletion(completedWorkers', results', resolved')
  /\ UNCHANGED <<workers, coordinatorUnchanged>>

\* the main thread handles the 'error' event of the worker w
HandleError(w) ==
  /\ w <= numWorkers
  /\ inbox[w] # << >>
  /\ Head(inbox[w]).type = "error"
  /\ inbox' = [inbox EXCEPT ![w] = Tail(@)]
  /\ completedWorkers' = completedWorkers + 1
  /\ reports' = checkCompletion(completedWorkers', results, resolved)
  /\ UNCHANGED <<workers, results, resolved, coordinatorUnchanged>>

\* the main thread handles the 'exit' event of the worker w
HandleExit(w) ==
  /\ w <= numWorkers
  /\ inbox[w] # << >>
  /\ Head(inbox[w]).type = "exit"
  /\ inbox' = [inbox EXCEPT ![w] = Tail(@)]
  /\ completedWorkers' = completedWorkers + 1
  /\ reports' = checkCompletion(completedWorkers', results, resolved)
  /\ UNCHANGED <<workers, results, resolved, coordinatorUnchanged>>

NextCoordinator ==
  \E w \in 1..MaxWorkers :
    \/ WorkerRuns(w)
    \/ WorkerPostsResults(w)
    \/ WorkerThrows(w)
    \/ HandleProgress(w)
    \/ HandleResults(w)
    \/ HandleError(w)
    \/ HandleExit(w)

SpecCoordinator == InitCoordinator /\ [][NextCoordinator]_vars

(***************************************************************************)
(* findBestConfigForStockMultiThreaded and main: one worker per chunk; a   *)
(* worker posts 'new_best' whenever a valid configuration beats the best   *)
(* of its chunk and 'result' with that best at the end; the main thread    *)
(* keeps the running best and resolves the promise of the worker on its    *)
(* 'result'.  The 'progress' message, posted on every 50th processed       *)
(* combination, only updates the counters of the progress line.  A         *)
(* combination is what its backtest gives; a profit is a number of the     *)
(* statistics or -Infinity.                                                *)
(***************************************************************************)
MaxSearchLen == 3

MaxSearchChunks == 3

\* what the backtest of a combination gives: a profit with enough trades,
\* a profit with too few trades, or an exception
SearchKinds ==
  { [valid |-> TRUE,  throws |-> FALSE, profit |-> Number(-1)],
    [valid |-> TRUE,  throws |-> FALSE, profit |-> Number(2)],
    [valid |-> FALSE, throws |-> FALSE, profit |-> Number(3)],
    [valid |-> FALSE, throws |-> TRUE,  profit |-> Number(0)] }

SearchLists == UNION {[1..n -> SearchKinds] : n \in 0..MaxSearchLen}

\* a > b on profits
ProfitGreater(a, b) ==
  IF "infinite" \in DOMAIN a THEN a.infinite > 0 /\ a # b
  ELSE IF "infinite" \in DOMAIN b THEN b.infinite < 0
  ELSE a.num > b.num

\* a running best that takes whatever arrives
KeepsLatest(incoming, current) == incoming

\* if (message.bestResult.profit > globalBestResult.profit)
\*   globalBestResult = {...message.bestResult}
KeepsBetter(incoming, current) ==
  IF ProfitGreater(incoming.profit, current.profit) THEN incoming
                                                     ELSE current

\* loadExistingBestConfig: the best of an earlier search, or the initial
\* best of findBestConfigForStockMultiThreaded
ExistingBests ==
  { [profit |-> Infinity(-1), params |-> Null],
    [profit |-> Number(1), params |-> Null] }

\* the main thread has split the combinations and created one worker and
\* one promise per chunk
InitSearch ==
  /\ NoBacktest
  /\ combinations \in SearchLists
  /\ numChunks \in 1..MaxSearchChunks
  /\ chunks = splitIntoChunks(combinations, numChunks)
  /\ chunkIndex = numChunks
  /\ workers = [w \in 1..Len(chunks) |->
                  [combinations |-> chunks[w],
                   i |-> 0,
                   bestResult |-> [profit |-> Infinity(-1), params |-> Null],
                   state |-> "running"]]
  /\ inbox = [w \in 1..Len(chunks) |-> << >>]
  /\ results = << >>
  /\ completedWorkers = 0
  /\ reports = << >>
  /\ existingBest \in ExistingBests
  /\ globalBestResult = existingBest
  /\ resolved = {}

\* what the steps of a worker of the search leave alone
searchUnchanged ==
  <<config, stockData, tape, dates, dateIndex, allTrades, stats,
    combinations, numChunks, chunks, chunkIndex, results, completedWorkers,
    existingBest, pc, dayData, len, scanVars, simVars>>

\* the worker w runs one pass of its loop
WorkerEvaluates(w) ==
  /\ w <= Len(workers)
  /\ workers[w].state = "running"
  /\ workers[w].i < Len(workers[w].combinations)
  /\ LET me     == workers[w]
         job    == me.combinations[me.i + 1]
         beats  == job.valid /\ ProfitGreater(job.profit, me.bestResult.profit)
         better == [profit |-> job.profit, params |-> <<w, me.i>>]
     IN /\ workers' =
             [workers EXCEPT ![w].i = @ + 1,
                             ![w].bestResult = IF beats THEN better ELSE @]
        /\ inbox' =
             [inbox EXCEPT ![w] =
                IF job.throws
                  THEN Append(@, [type |-> "error", fatal |-> FALSE])
                ELSE IF beats
                  THEN Append(@, [type |-> "new_best", bestResult |-> better])
                ELSE @]
  /\ UNCHANGED <<globalBestResult, resolved, reports, searchUnchanged>>

\* the worker w has left its loop: it posts its best and exits
WorkerPostsResult(w) ==
  /\ w <= Len(workers)
  /\ workers[w].state = "running"
  /\ workers[w].i = Len(workers[w].combinations)
  /\ inbox' = [inbox EXCEPT ![w] =
                 @ \o <<[type |-> "result",
                         bestResult |-> workers[w].bestResult],
                        [type |-> "exit", code |-> 0]>>]
  /\ workers' = [workers EXCEPT ![w].state = "ended"]
  /\ UNCHANGED <<globalBestResult, resolved, reports, searchUnchanged>>

\* the worker w fails before its loop (its stock data cannot be read): it
\* posts a fatal error and exits
WorkerFails(w) ==
  /\ w <= Len(workers)
  /\ workers[w].state = "running"
  /\ workers[w].i = 0
  /\ inbox' = [inbox EXCEPT ![w] =
                 @ \o <<[type |-> "error", fatal |-> TRUE],
                        [type |-> "exit", code |-> 0]>>]
  /\ workers' = [workers EXCEPT ![w].state = "ended"]
  /\ UNCHANGED <<globalBestResult, resolved, reports, searchUnchanged>>

\* the main thread handles a 'new_best' message of the worker w
OnNewBest(w) ==
  /\ w <= Len(workers)
  /\ reports = << >>
  /\ inbox[w] # << >>
  /\ Head(inbox[w]).type = "new_best"
  /\ inbox' = [inbox EXCEPT ![w] = Tail(@)]
  /\ globalBestResult' = KeepsBetter(Head(inbox[w]).bestResult,
                                     globalBestResult)
  /\ UNCHANGED <<workers, resolved, reports, searchUnchanged>>

\* the main thread handles the 'result' message of the worker w and
\* resolves its promise
OnResult(w) ==
  /\ w <= Len(workers)
  /\ reports = << >>
  /\ inbox[w] # << >>
  /\ Head(inbox[w]).type = "result"
  /\ inbox' = [inbox EXCEPT ![w] = Tail(@)]
  /\ globalBestResult' = KeepsBetter(Head(inbox[w]).bestResult,
                                     globalBestResult)
  /\ resolved' = resolved \cup {w}
  /\ UNCHANGED <<workers, reports, searchUnchanged>>

\* the main thread handles an 'error' message of the worker w: a fatal one
\* rejects the promise, Promise.all rejects and the search throws after
\* terminating the workers
OnErrorMessage(w) ==
  /\ w <= Len(workers)
  /\ reports = << >>
  /\ inbox[w] # << >>
  /\ Head(inbox[w]).type = "error"
  /\ IF Head(inbox[w]).fatal
       THEN /\ reports' = <<[thrown |-> TRUE]>>
            /\ workers' = [v \in 1..Len(workers) |->
                             [workers[v] EXCEPT !.state = "ended"]]
            /\ inbox' = [v \in 1..Len(workers) |-> << >>]
       ELSE /\ inbox' = [inbox EXCEPT ![w] = Tail(@)]
            /\ UNCHANGED <<workers, reports>>
  /\ UNCHANGED <<globalBestResult, resolved, searchUnchanged>>

\* the main thread handles the 'exit' event of the worker w
OnExit(w) ==
  /\ w <= Len(workers)
  /\ reports = << >>
  /\ inbox[w] # << >>
  /\ Head(inbox[w]).type = "exit"
  /\ inbox' = [inbox EXCEPT ![w] = Tail(@)]
  /\ UNCHANGED <<workers, globalBestResult, resolved, reports,
                 searchUnchanged>>

\* every promise has resolved: Promise.all resolves, the workers are
\* terminated and the search returns globalBestResult
ReturnBest ==
  /\ reports = << >>
  /\ resolved = 1..Len(workers)
  /\ reports' = <<[thrown |-> FALSE, returned |-> globalBestResult]>>
  /\ workers' = [v \in 1..Len(workers) |->
                   [workers[v] EXCEPT !.state = "ended"]]
  /\ inbox' = [v \in 1..Len(workers) |-> << >>]
  /\ UNCHANGED <<globalBestResult, resolved, searchUnchanged>>

NextSearch ==
  \/ \E w \in 1..MaxSearchChunks :
       \/ WorkerEvaluates(w)
       \/ WorkerPostsResult(w)
       \/ WorkerFails(w)
       \/ OnNewBest(w)
       \/ OnResult(w)
       \/ OnErrorMessage(w)
       \/ OnExit(w)
  \/ ReturnBest

SpecSearch == InitSearch /\ [][NextSearch]_vars

(***************************************************************************)
(* Properties.  The outcomes are read from allTrades, where backtest has   *)
(* recorded them.                                                          *)
(***************************************************************************)
Outcomes == {allTrades[k] : k \in 1..Len(allTrades)}

IsTradeResult(o) == "exit" \in DOMAIN o

TradeResults == {o \in Outcomes : IsTradeResult(o)}

\* the index of the candle with this formatted time
CandleIndexOf(formatted) == FormattedMinutes(formatted) - SessionStart

\* the entries the scan holds, and the one being simulated
EntriesHeld == {e \in {longEntry, shortEntry, trade} : e # Null}

\* C1: an order of any of the four limit-order mechanisms (entry, target,
\* stop loss, pre-close exit) placed at candle index p never fills at p or
\* at p + 1: every recorded fill is at an index >= p + 2.
EntryFillSkipsOneCandle(e) ==
  CandleIndexOf(e.entry.time)
    >= CandleIndexOf(e.breakoutDetails.entryOrderDetails.orderPlacedTime) + 2

ExitFillSkipsOneCandle(o) ==
  /\ CandleIndexOf(o.entry.time)
       >= CandleIndexOf(o.breakout.entryOrderDetails.orderPlacedTime) + 2
  /\ o.exit.reason = Reason("target limit order filled")
       => CandleIndexOf(o.exit.time) >= o.targetExitDetails.hitCandleIndex + 2
  /\ o.exit.reason = Reason("stop loss limit order filled")
       => CandleIndexOf(o.exit.time)
            >= o.stopLossExitDetails.breachCandleIndex + 2
  /\ o.exit.reason = Reason("pre-market exit limit order filled")
       => CandleIndexOf(o.exit.time)
            >= o.preMarketExitDetails.orderPlacementCandleIndex + 2

C1_SkipOneCandle ==
  /\ \A e \in EntriesHeld : EntryFillSkipsOneCandle(e)
  /\ \A o \in TradeResults : ExitFillSkipsOneCandle(o)

\* an entry order and then a target order have each filled on the second
\* candle after their placement
C1_Witness ==
  /\ \E o \in TradeResults :
       /\ CandleIndexOf(o.entry.time)
            = o.breakout.entryOrderDetails.orderPlacedAtCandle + 2
       /\ o.exit.reason = Reason("target limit order filled")
       /\ CandleIndexOf(o.exit.time) = o.targetExitDetails.hitCandleIndex + 2

\* the minute of the day of the candle at index idx
MinuteOfCandle(idx) == SessionStart + idx

\* marketExitTime.exitTime in minutes of the day
ExitMinute ==
  config.marketExitTime.exitTime[1] * 60 + config.marketExitTime.exitTime[2]

\* the exit simulation is about to run on a candle at or after exitTime
\* with the position still open
SimulatesExitTimeCandle ==
  /\ pc = "simulate" /\ i < len
  /\ config.marketExitTime.enabled
  /\ MinuteOfCandle(i) >= ExitMinute

\* the pre-close order, placed two candles earlier or more, is crossed by
\* the candle at index i
PreCloseOrderCrossed ==
  /\ preMarketExitOrder # Null
  /\ i >= preMarketExitOrder.placedAtCandle + 2
  /\ IF trade.type = "long"
       THEN dayData[i].high >= preMarketExitOrder.price
       ELSE dayData[i].low <= preMarketExitOrder.price

ForcedExitOnThisCandle ==
  /\ pc' = "exit"
  /\ exitReason' = Reason("forced market exit")
  /\ exitPrice' = applyPriceRounding(dayData[i].close, config)
  /\ exitTime' = formatTimestamp(Timestamp(i))

\* C2 as stated: on a candle at or after exitTime that the exit simulation
\* reaches with the position open, the trade exits at the rounded close with
\* reason "forced market exit", whatever else the candle does.
C2_ForcedExitFirst ==
  [][SimulatesExitTimeCandle => ForcedExitOnThisCandle]_vars

\* C2: on a candle at or after exitTime that the exit simulation reaches
\* with the position open, the trade exits on that candle: by the fill of
\* the pre-close limit order at its price when the candle crosses it, and
\* else at the rounded close with reason "forced market exit"; the target,
\* the stop loss and the circuit breaker never produce the exit there.
C2_ForcedExitUnlessPreCloseFill ==
  [][SimulatesExitTimeCandle =>
       IF PreCloseOrderCrossed
         THEN /\ pc' = "exit"
              /\ exitReason' = Reason("pre-market exit limit order filled")
              /\ exitPrice' = preMarketExitOrder.price
              /\ exitTime' = formatTimestamp(Timestamp(i))
         ELSE ForcedExitOnThisCandle]_vars

\* a trade was forced out at exitTime while its pre-close order, old enough
\* to fill, was not crossed
C2_Witness ==
  /\ pc = "exit"
  /\ exitReason = Reason("forced market exit")
  /\ preMarketExitOrder # Null
  /\ i >= preMarketExitOrder.placedAtCandle + 2
  /\ MinuteOfCandle(i) >= ExitMinute

\* |price - stop| / price * 100 >= minimumStopLossPercent
StopDistanceEnough(price, stop) ==
  Abs(price - stop) * 100 >= config.minimumStopLossPercent * price

\* C3 as stated: when minimumStopLossPercent > 0, every position created by
\* an entry fill has |entry price - stop loss| / entry price * 100 >=
\* minimumStopLossPercent, the entry price being the fill price.
C3_MinimumStopOfEntryPrice ==
  config.minimumStopLossPercent > 0 =>
    /\ \A e \in EntriesHeld : StopDistanceEnough(e.entry.price, e.stopLoss)
    /\ \A o \in TradeResults : StopDistanceEnough(o.entry.price, o.stopLoss)

\* C3: when minimumStopLossPercent > 0, every position created by an entry
\* fill has |breakout price - stop loss| / breakout price * 100 >=
\* minimumStopLossPercent: the distance is measured from the breakout price,
\* not from the price of the fill.
C3_MinimumStopOfBreakoutPrice ==
  config.minimumStopLossPercent > 0 =>
    /\ \A e \in EntriesHeld :
         StopDistanceEnough(e.breakoutDetails.breakoutPrice, e.stopLoss)
    /\ \A o \in TradeResults :
         StopDistanceEnough(o.breakout.breakoutPrice, o.stopLoss)

\* a position whose stop is at exactly the minimum distance from the
\* breakout price, and nearer than that to the price of the fill
C3_Witness ==
  /\ config.minimumStopLossPercent > 0
  /\ \E e \in EntriesHeld :
       /\ Abs(e.breakoutDetails.breakoutPrice - e.stopLoss) * 100
            = config.minimumStopLossPercent * e.breakoutDetails.breakoutPrice
       /\ ~StopDistanceEnough(e.entry.price, e.stopLoss)

\* the scan registers a breakout on the candle it reads
RegistersLongBreakout ==
  pendingLongBreakout' # Null /\ pendingLongBreakout' # pendingLongBreakout

RegistersShortBreakout ==
  pendingShortBreakout' # Null /\ pendingShortBreakout' # pendingShortBreakout

\* the minutes from the extreme recorded at time previousTime to the candle
\* the scan reads
MinutesSince(previousTime) ==
  MinuteOfCandle(len) - parseTimeToMinutes(previousTime)

GapWithinThresholds(gap) ==
  config.minThreshold <= gap /\ gap <= config.maxThreshold

\* C4: every breakout the day scan registers, long or short, comes t minutes
\* after the previous extreme of its side with minThreshold <= t <=
\* maxThreshold, and t is the elapsed time the breakout records.
C4_BreakoutGap ==
  [][/\ pc = "scan" /\ RegistersLongBreakout =>
          /\ GapWithinThresholds(MinutesSince(previousHighTime))
          /\ pendingLongBreakout'.breakoutDetails.timeSincePreviousExtreme
               = MinutesSince(previousHighTime)
     /\ pc = "scan" /\ RegistersShortBreakout =>
          /\ GapWithinThresholds(MinutesSince(previousLowTime))
          /\ pendingShortBreakout'.breakoutDetails.timeSincePreviousExtreme
               = MinutesSince(previousLowTime)]_vars

\* a long breakout maxThreshold minutes after the previous high is pending,
\* with a minThreshold above one minute
C4_Witness ==
  /\ pendingLongBreakout # Null
  /\ config.minThreshold > 1
  /\ pendingLongBreakout.breakoutDetails.timeSincePreviousExtreme
       = config.maxThreshold

\* the exit simulation saw the price reach the target, and saw no stop loss
\* breach before it
TargetReachedFirst(o) ==
  /\ o.targetExitDetails.targetHit
  /\ \/ ~o.stopLossExitDetails.stopLossBreached
     \/ o.stopLossExitDetails.breachCandleIndex
          > o.targetExitDetails.hitCandleIndex

\* C5 as stated: when after the entry the price reaches the target before
\* the stop loss, the TradeResult has the exit reason "target hit" or
\* "target limit order filled" and a netProfit > 0.
C5_TargetReachedWins ==
  \A o \in TradeResults :
    TargetReachedFirst(o) =>
      /\ o.exit.reason \in {Reason("target hit"),
                            Reason("target limit order filled")}
      /\ o.netProfit > 0

\* C5: when after the entry the price reaches the target before the stop
\* loss, a target limit order is placed and the stop loss and the circuit
\* breaker are out of play: the exit reason is "target limit order filled",
\* "pre-market exit limit order filled", "forced market exit" or "market
\* close"; a fill of the target order comes two candles after the hit or
\* later, at a price no worse than the order's first price.
C5_TargetReachedSuspendsStopLoss ==
  \A o \in TradeResults :
    TargetReachedFirst(o) =>
      /\ o.exit.reason \in {Reason("target limit order filled"),
                            Reason("pre-market exit limit order filled"),
                            Reason("forced market exit"),
                            Reason("market close")}
      /\ o.exit.reason = Reason("target limit order filled") =>
           /\ CandleIndexOf(o.exit.time)
                >= o.targetExitDetails.hitCandleIndex + 2
           /\ IF o.type = "long"
                THEN o.exit.price >= o.targetExitDetails.originalLimitPrice
                ELSE o.exit.price <= o.targetExitDetails.originalLimitPrice

\* a short trade reached its target first and its target order filled, at a
\* profit after fees
C5_Witness ==
  \E o \in TradeResults :
    /\ TargetReachedFirst(o)
    /\ o.type = "short"
    /\ o.exit.reason = Reason("target limit order filled")
    /\ o.entry.fee > 0
    /\ o.netProfit > 0

\* the candle at index i, the one the exit simulation is about to read
Candle == dayData[i]

\* the adverse move of the candle from the entry price
AdverseMove ==
  IF trade.type = "long" THEN trade.entry.price - Candle.low
                         ELSE Candle.high - trade.entry.price

\* |entry - adverse extreme| / riskPoints * 100 >= maxLossPercent
LossMeasureReached ==
  /\ AdverseMove > 0
  /\ IF RiskPoints(trade) > 0
       THEN AdverseMove * 100
              >= config.stopLossExitConfig.maxLossPercent * RiskPoints(trade)
       ELSE RiskPoints(trade) = 0

Beyond(type, price, level) ==
  IF type = "long" THEN price < level ELSE price > level

\* the stop loss was breached on an earlier candle or is on this one, by a
\* candle that closed beyond the stop
BreachClosedBeyondStop ==
  IF stopLossBreach
    THEN Beyond(trade.type, stopLossExitDetails.breachCandleClose,
                trade.stopLoss)
    ELSE /\ StopLossReached(trade.type, Candle, trade.stopLoss)
         /\ Beyond(trade.type, Candle.close, trade.stopLoss)

\* the exit simulation is about to read a candle on which the loss measure
\* reaches maxLossPercent, with the position open, the stop loss breached,
\* the target not reached and the forced exit time not reached
LossReachesMaximum ==
  /\ pc = "simulate" /\ i < len
  /\ config.stopLossExitConfig.enabled
  /\ config.stopLossExitConfig.forceMarketOrderAfterMax
  /\ config.stopLossExitConfig.maxLossPercent > 0
  /\ BreachClosedBeyondStop
  /\ LossMeasureReached
  /\ activeTargetOrder = Null
  /\ ~(config.targetExitConfig.enabled
         /\ TargetReached(trade.type, Candle, trade.target))
  /\ ~(config.marketExitTime.enabled /\ MinuteOfCandle(i) >= ExitMinute)

CircuitBreakerExitOnThisCandle ==
  /\ pc' = "exit"
  /\ exitReason'
       = CircuitBreakerReason(config.stopLossExitConfig.maxLossPercent)
  /\ exitPrice' = applyPriceRounding(IF trade.type = "long" THEN Candle.low
                                                            ELSE Candle.high,
                                     config)

\* the pending stop loss order, placed two candles earlier or more, is
\* crossed by the candle: the price recovers to it
StopLossOrderCrossed ==
  /\ activeStopLossOrder # Null
  /\ i >= activeStopLossOrder.placedAtCandle + 2
  /\ IF trade.type = "long"
       THEN Candle.high >= activeStopLossOrder.price
       ELSE Candle.low <= activeStopLossOrder.price

ScanGoesOn == pc = "scan" /\ pc' = "scan" /\ len' = len + 1

\* the volume check of a breakout on the candle at index len: it reads the
\* candles before that one
VolumeConfirmed == isVolumeConfirmationMet(dayData, len + 1, len, config)

\* The candle just read made a new high that passes the time gap and the
\* volume checks, with no long breakout pending and no long position; so
\* for a new low.
LongBreakoutRead ==
  /\ pendingLongBreakout = Null /\ longEntry = Null
  /\ previousHighPrice' > previousHighPrice + MeaningfulChange
  /\ GapWithinThresholds(MinutesSince(previousHighTime))
  /\ VolumeConfirmed

ShortBreakoutRead ==
  /\ pendingShortBreakout = Null /\ shortEntry = Null
  /\ previousLowPrice' < previousLowPrice - MeaningfulChange
  /\ GapWithinThresholds(MinutesSince(previousLowTime))
  /\ VolumeConfirmed

\* the outcome the step has recorded
NewOutcome == allTrades'[Len(allTrades')]

\* the scan has stopped and returned a stop-loss-too-tight record
StopLossRejected ==
  /\ pc = "scan" /\ pc' = "dates"
  /\ NewOutcome.message = "Breakout detected but stop loss too tight"

\* C7: with minimumStopLossPercent > 0, the scan never goes on past a
\* candle whose breakout passes the time gap and volume checks with a stop
\* distance |breakoutPrice - stop| / breakoutPrice * 100 below the minimum
\* (the stop is the rounded extreme of the other side since the previous
\* extreme, the candle of the breakout included):
\* it stops there, and the outcome it returns is a non-trade record with
\* minimumStopLossRejection = true, of a breakout whose stop is too near.
C7_MinimumStopRejection ==
  [][config.minimumStopLossPercent > 0 =>
       /\ ScanGoesOn /\ LongBreakoutRead =>
            StopDistanceEnough(
              applyPriceRounding(previousHighPrice, config),
              applyPriceRounding(Min2(lowestSinceLastHigh,
                                      lowestSinceLastHigh'), config))
       /\ ScanGoesOn /\ ShortBreakoutRead =>
            StopDistanceEnough(
              applyPriceRounding(previousLowPrice, config),
              applyPriceRounding(Max2(highestSinceLastLow,
                                      highestSinceLastLow'), config))
       /\ StopLossRejected =>
            /\ Len(allTrades') = Len(allTrades) + 1
            /\ ~IsTradeResult(NewOutcome)
            /\ NewOutcome.minimumStopLossRejection
            /\ NewOutcome.breakoutDetected
            /\ IF NewOutcome.breakoutType = "long"
                 THEN ~StopDistanceEnough(
                         applyPriceRounding(previousHighPrice, config),
                         applyPriceRounding(lowestSinceLastHigh, config))
                 ELSE ~StopDistanceEnough(
                         applyPriceRounding(previousLowPrice, config),
                         applyPriceRounding(highestSinceLastLow, config))]_vars

\* a day has ended at a short breakout whose stop was too near
C7_Witness ==
  /\ config.minimumStopLossPercent > 0
  /\ \E o \in Outcomes :
       /\ "minimumStopLossRejection" \in DOMAIN o
       /\ o.minimumStopLossRejection
       /\ ~IsTradeResult(o)
       /\ o.breakoutType = "short"

\* the exit simulation is about to read a candle with marketExitTime enabled
SimulatesWithMarketExit ==
  pc = "simulate" /\ i < len /\ config.marketExitTime.enabled

\* the step has placed the pre-close order on the candle at index i, at its
\* rounded close
PreCloseOrderPlacedNow ==
  /\ preMarketExitOrder = Null
  /\ preMarketExitOrder' # Null
  /\ preMarketExitOrder'.placedAtCandle = i
  /\ preMarketExitOrder'.originalPrice
       = applyPriceRounding(Candle.close, config)
  /\ preMarketExitDetails'.orderPlacementCandleIndex = i

\* The pre-close order is placed on the first simulated candle at or after
\* exitTime - minutes and on none before it, and a trade still open at
\* exitTime is forced out unless the pre-close order fills there.
PreCloseExitSchedule(minutes) ==
  SimulatesWithMarketExit =>
    /\ MinuteOfCandle(i) < ExitMinute - minutes =>
         preMarketExitOrder' = Null
    /\ MinuteOfCandle(i) >= ExitMinute - minutes
         /\ preMarketExitOrder = Null => PreCloseOrderPlacedNow
    /\ MinuteOfCandle(i) >= ExitMinute /\ ~PreCloseOrderCrossed =>
         ForcedExitOnThisCandle

\* C8 as stated: with marketExitTime enabled and a position open, the
\* pre-close limit order is placed on the first simulated candle whose time
\* is >= exitTime - preExitLimitOrderMinutes, at its rounded close, and on
\* no earlier candle; a trade whose order has not filled by the first candle
\* at or after exitTime exits there at the rounded close with reason "forced
\* market exit".
C8_PreCloseOrderAtConfiguredMinutes ==
  [][PreCloseExitSchedule(
       config.marketExitTime.preExitLimitOrderMinutes)]_vars

\* C8, what the code does: the same with 10 minutes in the place of a
\* preExitLimitOrderMinutes of 0.
C8_PreCloseOrderAtEffectiveMinutes ==
  [][PreCloseExitSchedule(PreExitMinutes(config))]_vars

\* with preExitLimitOrderMinutes = 0 a pre-close order has been placed on a
\* candle before exitTime
C8_Witness ==
  /\ pc = "simulate"
  /\ config.marketExitTime.enabled
  /\ config.marketExitTime.preExitLimitOrderMinutes = 0
  /\ preMarketExitOrder # Null
  /\ MinuteOfCandle(preMarketExitOrder.placedAtCandle) < ExitMinute

\* shares * price * brokerageFeePercent / 100, in the unit of the fees
FeeOn(shares, price) ==
  shares * price * config.capital.brokerageFeePercent

\* C9: in every TradeResult, entry.fee and exit.fee are shares * price *
\* brokerageFeePercent / 100 at the entry and at the exit price, grossProfit
\* is shares * (exit - entry) for a long and shares * (entry - exit) for a
\* short trade, netProfit is grossProfit - (entry.fee + exit.fee), and
\* totalFees is entry.fee + exit.fee.
C9_FeeCorrectness ==
  \A o \in TradeResults :
    /\ o.entry.fee = FeeOn(o.shares, o.entry.price)
    /\ o.exit.fee = FeeOn(o.shares, o.exit.price)
    /\ o.type = "long" =>
         o.grossProfit = o.shares * (o.exit.price - o.entry.price) * MoneyScale
    /\ o.type = "short" =>
         o.grossProfit = o.shares * (o.entry.price - o.exit.price) * MoneyScale
    /\ o.netProfit = o.grossProfit - (o.entry.fee + o.exit.fee)
    /\ o.totalFees = o.entry.fee + o.exit.fee

\* a short trade that won before fees, with fees charged on both sides that
\* differ, has been recorded
C9_Witness ==
  \E o \in TradeResults :
    /\ o.type = "short"
    /\ o.shares > 0
    /\ o.entry.fee > 0
    /\ o.exit.fee > 0
    /\ o.exit.fee # o.entry.fee
    /\ o.grossProfit > 0

\* the record of a day without a trade
IsNonTradeRecord(o) == "message" \in DOMAIN o /\ ~IsTradeResult(o)

\* the day has no candles: stockData.data[date] is null or []
HasNoCandles(date) == stockData[date] \in {"null", "empty"}

\* the date passes the date filter of the configuration
IsIncluded(date) ==
  config.dateFilter.enabled =>
    /\ date >= config.dateFilter.dateRange.start
    /\ date <= config.dateFilter.dateRange.end

\* C10: backtest records exactly one outcome for every included date, in
\* the order of the dates: the k-th outcome is the outcome of the k-th
\* included date and is either a TradeResult or a non-trade record, a date
\* without candle data gets a non-trade record with the no-data message,
\* and when backtest is done every included date has its outcome.
C10_OneOutcomePerDay ==
  /\ Len(allTrades) = dateIndex - 1
  /\ \A d \in DOMAIN stockData :
       IsIncluded(d) <=> \E k \in 1..Len(dates) : dates[k] = d
  /\ \A j, k \in 1..Len(dates) : j # k => dates[j] # dates[k]
  /\ \A k \in 1..Len(allTrades) :
       /\ allTrades[k].date = dates[k]
       /\ IsTradeResult(allTrades[k]) \/ IsNonTradeRecord(allTrades[k])
       /\ HasNoCandles(dates[k]) =>
            /\ IsNonTradeRecord(allTrades[k])
            /\ allTrades[k].message = "No data available for this date"
  /\ pc = "done" => Len(allTrades) = Len(dates)

\* backtest is done with a day of missing data, then a day with a trade,
\* then a day of empty data
C10_Witness ==
  /\ pc = "done"
  /\ Len(allTrades) = 3
  /\ stockData[dates[1]] = "null"
  /\ IsNonTradeRecord(allTrades[1])
  /\ IsTradeResult(allTrades[2])
  /\ stockData[dates[3]] = "empty"
  /\ IsNonTradeRecord(allTrades[3])

\* simulateTrade returns its trade result on this step
TradeExitStep == pc \in {"simulate", "exit"} /\ pc' = "dates"

\* the last candle of the day
LastCandle == dayData[len - 1]

\* the tick of the price rounding, 0 when the rounding is off
Tick == IF config.priceRounding.enabled THEN config.priceRounding.tickSize
        ELSE 0

\* price is the nearest multiple of the tick to raw (raw itself when the
\* rounding is off)
IsRounded(price, raw) ==
  IF Tick = 0 THEN price = raw
  ELSE price % Tick = 0 /\ 2 * Abs(price - raw) <= Tick

\* C11: a trade that no exit mechanism has ended when the candles run out
\* exits at the last candle's rounded close, at its time, with the reason
\* "market close"; an exit mechanism that fires ends the simulation at once,
\* so that the exit is set once, and every trade result carries an exit
\* with price, time and reason.
C11_MarketCloseFallback ==
  [][/\ pc = "simulate" => exitPrice = 0 /\ exitTime = Null
                             /\ exitReason = Null
     /\ pc = "exit" => exitPrice # 0 /\ exitTime # Null /\ exitReason # Null
     /\ TradeExitStep =>
          /\ Len(allTrades') = Len(allTrades) + 1
          /\ IsTradeResult(NewOutcome)
          /\ NewOutcome.exit.price # 0
          /\ NewOutcome.exit.time # Null
          /\ NewOutcome.exit.reason # Null
          /\ exitPrice = 0 =>
               /\ IsRounded(NewOutcome.exit.price, LastCandle.close)
               /\ NewOutcome.exit.time
                    = [hours |-> (MinuteOfCandle(len - 1)) \div 60,
                       minutes |-> (MinuteOfCandle(len - 1)) % 60]
               /\ NewOutcome.exit.reason = [text |-> "market close"]
          /\ exitPrice # 0 =>
               /\ NewOutcome.exit.price = exitPrice
               /\ NewOutcome.exit.time = exitTime
               /\ NewOutcome.exit.reason = exitReason
               /\ NewOutcome.exit.reason # [text |-> "market close"]]_vars

\* a trade that was held over two candles or more after its entry, whose
\* last candle closed off the tick, has exited at the market close
C11_Witness ==
  \E o \in TradeResults :
    /\ o.exit.reason = [text |-> "market close"]
    /\ CandleIndexOf(o.exit.time) >= CandleIndexOf(o.entry.time) + 2
    /\ \E shape \in CandleShapes :
         shape.close % 500 # 0 /\ IsRounded(o.exit.price, shape.close)

\* the outcome without the date it is recorded for
Undated(o) == [o EXCEPT !.date = 0]

\* the positions in allTrades of the days that had candles
CandleDays == {k \in 1..Len(allTrades) : stockData[dates[k]] = "candles"}

LossAtMaximum ==
  /\ pc = "simulate" /\ i < len
  /\ config.stopLossExitConfig.enabled
  /\ config.stopLossExitConfig.forceMarketOrderAfterMax
  /\ config.stopLossExitConfig.maxLossPercent > 0
  /\ LossMeasureReached
  /\ ~(config.marketExitTime.enabled /\ MinuteOfCandle(i) >= ExitMinute)

TargetOrderInPlay ==
  \/ activeTargetOrder # Null
  \/ /\ config.targetExitConfig.enabled
     /\ ~targetHit
     /\ TargetReached(trade.type, Candle, trade.target)

FirstBreachNow ==
  pc = "simulate" /\ i < len /\ ~stopLossBreach /\ stopLossBreach'

\* the step has placed the stop loss order
StopLossOrderPlacedNow ==
  pc = "simulate" /\ activeStopLossOrder = Null /\ activeStopLossOrder' # Null

\* the candle closes at or beyond the stop
ClosesBeyondStop ==
  IF trade.type = "long" THEN Candle.close <= trade.stopLoss
                         ELSE Candle.close >= trade.stopLoss

\* the order placed on this step is at the rounded close of the candle
StopLossOrderAtRoundedClose ==
  /\ activeStopLossOrder'.placedAtCandle = i
  /\ IsRounded(activeStopLossOrder'.price, Candle.close)
  /\ activeStopLossOrder'.originalPrice = activeStopLossOrder'.price

\* the stop loss block is reached on the candle and the stop is touched
\* for the first time
StopFirstTouched ==
  /\ pc = "simulate" /\ i < len
  /\ config.stopLossExitConfig.enabled
  /\ ~stopLossBreach
  /\ StopLossReached(trade.type, Candle, trade.stopLoss)
  /\ ~TargetOrderInPlay
  /\ ~PreCloseOrderCrossed
  /\ ~(config.marketExitTime.enabled /\ MinuteOfCandle(i) >= ExitMinute)

StopLossMechanismExit(reason) ==
  \/ reason = [text |-> "stop loss limit order filled"]
  \/ "percent" \in DOMAIN reason

\* the loop body reaches the target check on the candle: no pre-close fill
\* and no forced exit comes before it
TargetCheckReached ==
  /\ pc = "simulate" /\ i < len
  /\ ~PreCloseOrderCrossed
  /\ ~(config.marketExitTime.enabled /\ MinuteOfCandle(i) >= ExitMinute)

\* C15: on a candle that reaches the target for the first time the target
\* order is placed before the stop loss is looked at, and on every candle
\* read while a target order is active, the candle that places it included,
\* the stop loss state stays as it is: no breach is recorded, no stop loss
\* order is placed, updated or filled, and the circuit breaker does not end
\* the trade.
C15_TargetPrecedence ==
  [][pc = "simulate" /\ i < len =>
       /\ TargetCheckReached /\ config.targetExitConfig.enabled
            /\ ~targetHit /\ activeTargetOrder = Null
            /\ TargetReached(trade.type, Candle, trade.target)
            => /\ targetHit'
               /\ activeTargetOrder' # Null
               /\ activeTargetOrder'.placedAtCandle = i
       /\ activeTargetOrder' # Null =>
            /\ stopLossBreach' = stopLossBreach
            /\ activeStopLossOrder' = activeStopLossOrder
            /\ stopLossExitDetails' = stopLossExitDetails
            /\ pc' = "exit" => ~StopLossMechanismExit(exitReason')]_vars

\* the loop has read the last candle of the day with a target order
\* placed on an earlier candle; the candle touched the stop, and no
\* breach is recorded
C15_Witness ==
  /\ pc = "simulate" /\ i = len
  /\ config.stopLossExitConfig.enabled
  /\ activeTargetOrder # Null
  /\ activeTargetOrder.placedAtCandle < len - 1
  /\ StopLossReached(trade.type, dayData[len - 1], trade.stopLoss)
  /\ ~stopLossBreach
  /\ activeStopLossOrder = Null

\* C16 as stated: within one day scan a long entry fill and a short entry
\* fill never both occur.
C16_OnePositionPerDay == ~(longEntry # Null /\ shortEntry # Null)

\* the scan holds a filled short entry and a long entry filled on a later
\* candle of the same day
C16_Witness ==
  /\ pc = "scan"
  /\ longEntry # Null
  /\ shortEntry # Null
  /\ CandleIndexOf(shortEntry.entry.time) < CandleIndexOf(longEntry.entry.time)

\* prices around the candles' closes, on and off the tick
ChasePrices == {9500, 9700, 10500}

\* new is worse than old for the holder of a position of this type
WorseFor(type, new, old) ==
  IF type = "long" THEN new < old ELSE new > old

\* the step has changed the price of the pending order
Repriced(before, after) ==
  before # Null /\ after # Null /\ after.price # before.price

\* C17: a price update of a pending stop loss order moves it to the
\* trader's disadvantage (long: lower, short: higher) and one of a pending
\* target order to the trader's advantage (long: higher, short: lower),
\* each by 0.05 or more, and neither order is updated while its dynamic
\* adjustment flag is off.  The tests that decide an update accept a new
\* price only in that direction and by that much.
C17_ExitChaseDirection ==
  [][/\ Repriced(activeStopLossOrder, activeStopLossOrder') =>
          /\ config.stopLossExitConfig.dynamicStopLossAdjustment
          /\ WorseFor(trade.type, activeStopLossOrder'.price,
                      activeStopLossOrder.price)
          /\ Abs(activeStopLossOrder'.price - activeStopLossOrder.price)
               >= 500
          /\ activeStopLossOrder'.priceUpdates
               = activeStopLossOrder.priceUpdates + 1
     /\ Repriced(activeTargetOrder, activeTargetOrder') =>
          /\ config.targetExitConfig.dynamicTargetAdjustment
          /\ WorseFor(trade.type, activeTargetOrder.price,
                      activeTargetOrder'.price)
          /\ Abs(activeTargetOrder'.price - activeTargetOrder.price) >= 500
     /\ \A type \in {"long", "short"} : \A new, old \in ChasePrices :
          /\ StopLossPriceWorse(type, new, old) <=>
               WorseFor(type, new, old) /\ Abs(new - old) >= 500
          /\ TargetPriceBetter(type, new, old) <=>
               WorseFor(type, old, new) /\ Abs(new - old) >= 500]_vars

\* a pending stop loss order of a long trade has been moved down from the
\* price it was placed at
C17_Witness ==
  /\ pc = "simulate"
  /\ trade.type = "long"
  /\ activeStopLossOrder # Null
  /\ activeStopLossOrder.priceUpdates > 0
  /\ activeStopLossOrder.price < activeStopLossOrder.originalPrice

\* new is a better price than old to enter a position of this direction at
BetterEntryFor(side, new, old) ==
  IF side = "long" THEN new < old ELSE new > old

\* the scan step has changed the price of the pending entry order
EntryRepriced(before, after) ==
  before # Null /\ after # Null /\ after.price # before.price

\* what holds of a scan step for the entry order of one direction: a
\* repricing, and a fill
EntryChaseStep(side, order, orderAfter, entry, entryAfter) ==
  /\ EntryRepriced(order, orderAfter) =>
        /\ pc = "scan"
        /\ len > order.placedAtCandle + 1
        /\ entryAfter = Null
        /\ config.entryOrderConfig.dynamicEntryAdjustment
        /\ orderAfter.placedAtCandle = order.placedAtCandle
        /\ orderAfter.priceUpdates = order.priceUpdates + 1
        /\ BetterEntryFor(side, orderAfter.price, order.price)
        /\ Abs(orderAfter.price - order.price) >= 500
        /\ len \in DOMAIN dayData' =>
              orderAfter.price = applyPriceRounding(dayData'[len].close, config)
  /\ (entry = Null /\ entryAfter # Null) =>
        /\ order # Null
        /\ len > order.placedAtCandle + 1
        /\ entryAfter.entry.price = order.price
        /\ entryAfter.breakoutDetails.actualEntryPrice = order.price

\* C18: the price of a pending entry order changes only on a scanned
\* candle two or more after its placement that did not fill it, only with
\* dynamic entry adjustment on, and only to that candle's rounded close
\* when that is better for the trader (long: lower, short: higher) by 0.05
\* or more; the entry price of the position a fill creates is the price
\* the order had when the fill came.  The test that decides an update
\* accepts a new price only in that direction and by that much.
C18_EntryChase ==
  [][/\ EntryChaseStep("long", pendingLongEntryOrder, pendingLongEntryOrder',
                       longEntry, longEntry')
     /\ EntryChaseStep("short", pendingShortEntryOrder,
                       pendingShortEntryOrder', shortEntry, shortEntry')
     /\ \A side \in {"long", "short"} : \A new, old \in ChasePrices :
          EntryPriceBetter(side, new, old) <=>
            BetterEntryFor(side, new, old) /\ Abs(new - old) >= 500]_vars

\* with dynamic entry adjustment on, a position was entered at the price of
\* an order that an earlier checked candle had left unfilled
C18_Witness ==
  /\ pc = "simulate"
  /\ config.entryOrderConfig.dynamicEntryAdjustment
  /\ trade.breakoutDetails.entryOrderDetails.orderPlacedAtCandle + 2
       < entryIndex
  /\ trade.entry.price
       = trade.breakoutDetails.entryOrderDetails.finalOrderPrice

\* the candle the next scan step reads lies outside the entry time window
NextCandleOutsideWindow ==
  /\ pc = "scan"
  /\ config.entryTimeRange.enabled
  /\ ~isEntryTimeAllowed(Timestamp(len), config)

\* the candle the next scan step reads lies after the end of the window
NextCandleAfterWindow ==
  /\ pc = "scan"
  /\ config.entryTimeRange.enabled
  /\ parseTimeToMinutes(Timestamp(len))
       > parse24HourTimeToMinutes(config.entryTimeRange.endTime)

\* the step has scanned one more candle of the day
ScannedOneCandle == pc = "scan" /\ pc' = "scan" /\ len' = len + 1

\* the entry time of a position lies in the entry time window
EnteredInWindow(entry) ==
  config.entryTimeRange.enabled =>
    /\ entry.entry.time.hours * 60 + entry.entry.time.minutes
         >= parse24HourTimeToMinutes(config.entryTimeRange.startTime)
    /\ entry.entry.time.hours * 60 + entry.entry.time.minutes
         <= parse24HourTimeToMinutes(config.entryTimeRange.endTime)

\* what holds of a scan step for one direction when the window is closed
WindowClosureStep(breakout, breakoutAfter, order, orderAfter, entry,
                  entryAfter) ==
  /\ (NextCandleOutsideWindow /\ ScannedOneCandle /\ order # Null
        /\ entry = Null /\ SkipOneCandlePassed(len, order)) =>
        /\ NextCandleAfterWindow
        /\ orderAfter = Null
        /\ entryAfter = Null
        /\ breakoutAfter # Null =>
              breakoutAfter.breakoutDetails.breakoutTime
                = formatTimestamp(Timestamp(len))
  /\ (NextCandleAfterWindow /\ ScannedOneCandle /\ entry = Null) =>
        /\ orderAfter # Null => orderAfter = order
        /\ entryAfter = Null
  /\ entry # Null => EnteredInWindow(entry)

\* C19: with the entry time window enabled, a pending entry order checked
\* on a candle outside the window is cancelled together with its breakout
\* and does not fill on that candle; such a candle lies after the end of
\* the window, and from the end of the window on no candle of the day
\* fills an entry order or places a new one in either direction; every
\* position, pending, simulated or recorded, has its entry time inside the
\* window.
C19_EntryWindowClosure ==
  [][/\ WindowClosureStep(pendingLongBreakout, pendingLongBreakout',
                          pendingLongEntryOrder, pendingLongEntryOrder',
                          longEntry, longEntry')
     /\ WindowClosureStep(pendingShortBreakout, pendingShortBreakout',
                          pendingShortEntryOrder, pendingShortEntryOrder',
                          shortEntry, shortEntry')
     /\ pc \in {"simulate", "exit"} => EnteredInWindow(trade)
     /\ \A n \in 1..Len(allTrades) :
          "entry" \in DOMAIN allTrades[n] => EnteredInWindow(allTrades[n])
    ]_vars

\* the entry time window is enabled and has ended, and a long entry order
\* placed inside it is still pending and due to be checked on the next
\* candle of the day
C19_Witness ==
  /\ NextCandleOutsideWindow
  /\ len < MaxCandles
  /\ pendingLongEntryOrder # Null
  /\ pendingLongBreakout # Null
  /\ longEntry = Null
  /\ SkipOneCandlePassed(len, pendingLongEntryOrder)

\* the candle's price touches the pullback level
TouchesPullback(side, candle, level) ==
  IF side = "long" THEN candle.low <= level ELSE candle.high >= level

\* the candle closes strictly beyond the pullback level
ClosesBeyondPullback(side, candle, level) ==
  IF side = "long" THEN candle.close < level ELSE candle.close > level

\* the entry order the pullback block places on this candle
OrderPlacedOn(order, candle, idx, breakout) ==
  /\ order # Null
  /\ order.price = applyPriceRounding(candle.close, config)
  /\ order.originalPrice = order.price
  /\ order.placedAtCandle = idx
  /\ order.placedTime = formatTimestamp(candle.timestamp_readable_IST)
  /\ order.priceUpdates = 0
  /\ order.breakoutInfo = breakout

\* a breakout of this direction is pending with no entry order and no
\* entry, and the day has a next candle
AwaitsPullback(breakout, order, entry) ==
  /\ pc = "scan"
  /\ len < MaxCandles
  /\ breakout # Null
  /\ order = Null
  /\ entry = Null

\* the claim as written, for one direction and one next candle: a touch
\* with the window open places the order
OrderOnTouch(side, breakout, order, entry, candle) ==
  (/\ AwaitsPullback(breakout, order, entry)
   /\ TouchesPullback(side, candle, breakout.pullbackEntryPrice)
   /\ isEntryTimeAllowed(candle.timestamp_readable_IST, config)) =>
     OrderPlacedOn(PullbackEntry(side, breakout, order, entry, candle, len,
                                 config).order,
                   candle, len, breakout)

\* what the pullback block does, for one direction and one next candle
OrderOnPullbackClose(side, breakout, order, entry, candle) ==
  LET after  == PullbackEntry(side, breakout, order, entry, candle, len,
                              config)
      hit    == /\ TouchesPullback(side, candle, breakout.pullbackEntryPrice)
                /\ ClosesBeyondPullback(side, candle,
                                        breakout.pullbackEntryPrice)
      inTime == isEntryTimeAllowed(candle.timestamp_readable_IST, config)
  IN AwaitsPullback(breakout, order, entry) =>
       /\ (hit /\ inTime) =>
             /\ OrderPlacedOn(after.order, candle, len, breakout)
             /\ after.breakout = breakout
       /\ (hit /\ ~inTime) =>
             /\ after.order = Null
             /\ after.breakout = Null
       /\ ~hit =>
             /\ after.order = Null
             /\ after.breakout = breakout

\* a scan step that leaves a new entry order has placed it on the candle
\* it scanned, inside the window, for the breakout that was pending
NewOrderStep(breakout, order, orderAfter) ==
  (ScannedOneCandle /\ order = Null /\ orderAfter # Null) =>
    /\ breakout # Null
    /\ orderAfter.breakoutInfo = breakout
    /\ orderAfter.placedAtCandle = len
    /\ orderAfter.price = orderAfter.originalPrice
    /\ isEntryTimeAllowed(Timestamp(len), config)

\* C20 as written: while a breakout is pending with no entry order, the
\* first candle whose price touches the pullback level (long: low at or
\* under it, short: high at or over it) with the entry time window open
\* gets an entry limit order at its rounded close.
C20_OrderOnFirstTouch ==
  \A shape \in CandleShapes :
    /\ OrderOnTouch("long", pendingLongBreakout, pendingLongEntryOrder,
                    longEntry, CandleAt(shape, len))
    /\ OrderOnTouch("short", pendingShortBreakout, pendingShortEntryOrder,
                    shortEntry, CandleAt(shape, len))

\* C20, amended: while a breakout is pending with no entry order and no
\* entry, a candle places the entry limit order, at its rounded close, when
\* its price touches the pullback level, it closes strictly beyond the
\* level (long: under, short: over) and the entry time window is open; a
\* candle that touches and closes beyond the level with the window closed
\* cancels the breakout instead; any other candle leaves the breakout
\* waiting.  An order appears in no other way.
C20_OrderOnPullbackClose ==
  [][/\ \A shape \in CandleShapes :
          /\ OrderOnPullbackClose("long", pendingLongBreakout,
                                  pendingLongEntryOrder, longEntry,
                                  CandleAt(shape, len))
          /\ OrderOnPullbackClose("short", pendingShortBreakout,
                                  pendingShortEntryOrder, shortEntry,
                                  CandleAt(shape, len))
     /\ NewOrderStep(pendingLongBreakout, pendingLongEntryOrder,
                     pendingLongEntryOrder')
     /\ NewOrderStep(pendingShortBreakout, pendingShortEntryOrder,
                     pendingShortEntryOrder')]_vars

\* a long entry order has just been placed, for a breakout that had waited
\* through a candle or more that did not place it
C20_Witness ==
  /\ pc = "scan"
  /\ pendingLongEntryOrder # Null
  /\ pendingLongEntryOrder.placedAtCandle = len - 1
  /\ pendingLongEntryOrder.price
       <= pendingLongEntryOrder.breakoutInfo.pullbackEntryPrice
  /\ LET registered ==
           pendingLongEntryOrder.breakoutInfo.breakoutDetails.breakoutTime
         placed == pendingLongEntryOrder.placedTime
     IN registered.hours * 60 + registered.minutes + 1
          < placed.hours * 60 + placed.minutes

\* what the pullback block and the entry order block together make of one
\* next candle, for one direction
AfterEntryBlocks(side, breakout, order, entry, candle) ==
  LET pull == PullbackEntry(side, breakout, order, entry, candle, len, config)
  IN EntryOrderCheck(side, pull.breakout, pull.order, entry, candle, len,
                     config)

\* with entry orders disabled, a pullback inside the window is a fill on
\* its own candle
FillsOnPullbackCandle(side, breakout, order, entry, candle) ==
  (/\ ~config.entryOrderConfig.enabled
   /\ AwaitsPullback(breakout, order, entry)
   /\ PullbackHit(side, candle, breakout)
   /\ isEntryTimeAllowed(candle.timestamp_readable_IST, config)) =>
     /\ AfterEntryBlocks(side, breakout, order, entry, candle).entry # Null
     /\ AfterEntryBlocks(side, breakout, order, entry, candle).order = Null

\* C21: with entryOrderConfig.enabled false, a pullback inside the entry
\* time window creates the position on the pullback candle itself, with no
\* pending entry order and no skip-one-candle delay.
C21_SimpleEntryVariant ==
  \A shape \in CandleShapes :
    /\ FillsOnPullbackCandle("long", pendingLongBreakout,
                             pendingLongEntryOrder, longEntry,
                             CandleAt(shape, len))
    /\ FillsOnPullbackCandle("short", pendingShortBreakout,
                             pendingShortEntryOrder, shortEntry,
                             CandleAt(shape, len))

\* with entry orders disabled, a pullback has left a pending entry order
\* and no position
C21_Witness ==
  /\ pc = "scan"
  /\ ~config.entryOrderConfig.enabled
  /\ pendingLongEntryOrder # Null
  /\ pendingLongEntryOrder.placedAtCandle = len - 1
  /\ longEntry = Null

\* the outcome the step has recorded
RecordedOutcome == allTrades'[Len(allTrades')]

\* the scan of the day ends here with a record, and not by the rejection of
\* a breakout whose stop loss is too tight
DayEndsInScan ==
  /\ pc = "scan"
  /\ pc' = "dates"
  /\ RecordedOutcome.message # "Breakout detected but stop loss too tight"

\* an entry order is pending and no position was entered
OrderPendingUnfilled ==
  /\ pendingLongEntryOrder # Null \/ pendingShortEntryOrder # Null
  /\ longEntry = Null
  /\ shortEntry = Null

\* C22: a day that ends with an entry limit order placed and never filled,
\* and with no position, gets the record of the unfilled entry order
\* (entryOrderPlaced true), not the record of a breakout without pullback.
C22_EntryOrderUnfilledOutcome ==
  [][(DayEndsInScan /\ OrderPendingUnfilled) =>
       /\ RecordedOutcome.message = "Entry order placed but not filled"
       /\ "entryOrderPlaced" \in DOMAIN RecordedOutcome
       /\ RecordedOutcome.entryOrderPlaced]_vars

\* the last candle of the day is scanned, a long entry order has been
\* checked and is still pending, and no position was entered
C22_Witness ==
  /\ pc = "scan"
  /\ len = MaxCandles
  /\ OrderPendingUnfilled
  /\ pendingLongEntryOrder # Null
  /\ len > pendingLongEntryOrder.placedAtCandle + 2

\* the record of a breakout outside the time threshold range
IsOutsideTimeRangeRecord(o) ==
  /\ "breakoutOutsideTimeRange" \in DOMAIN o
  /\ o.breakoutOutsideTimeRange

\* the scan holds no position, no pending breakout and no pending order
NothingPending ==
  /\ longEntry = Null /\ shortEntry = Null
  /\ pendingLongBreakout = Null /\ pendingShortBreakout = Null
  /\ pendingLongEntryOrder = Null /\ pendingShortEntryOrder = Null

\* C23: a new extreme whose time gap is outside [minThreshold,
\* maxThreshold] is recorded and the scan goes on with the next candle; the
\* first violation recorded stays the recorded one for the rest of the day;
\* a day's outcome is the record of a breakout outside the time range only
\* when the day ends with no position, no pending breakout and no pending
\* entry order, and that record carries the type, time and gap of the first
\* violation of the day.
C23_ElapsedTimeViolations ==
  [][/\ (pc = "scan" /\ invalidBreakouts = << >>
           /\ invalidBreakouts' # << >>) =>
          /\ pc' = "scan"
          /\ len' = len + 1
          /\ invalidBreakouts'[1].breakoutTime
               = formatTimestamp(Timestamp(len))
          /\ \/ invalidBreakouts'[1].timeGap < config.minThreshold
             \/ invalidBreakouts'[1].timeGap > config.maxThreshold
     /\ (pc = "scan" /\ pc' = "scan" /\ invalidBreakouts # << >>) =>
          invalidBreakouts' = invalidBreakouts
     /\ (pc = "scan" /\ pc' = "dates"
           /\ IsOutsideTimeRangeRecord(RecordedOutcome)) =>
          /\ NothingPending
          /\ invalidBreakouts # << >>
          /\ RecordedOutcome.breakoutType = invalidBreakouts[1].type
          /\ RecordedOutcome.breakoutTime = invalidBreakouts[1].breakoutTime
          /\ RecordedOutcome.timeGap = invalidBreakouts[1].timeGap
     /\ pc # "scan" =>
          (pc' = "dates" => ~IsOutsideTimeRangeRecord(RecordedOutcome))
    ]_vars

\* the scan has gone on for two candles or more past the first violation of
\* the day, and nothing is pending
C23_Witness ==
  /\ pc = "scan"
  /\ invalidBreakouts # << >>
  /\ NothingPending
  /\ FormattedMinutes(invalidBreakouts[1].breakoutTime) + 2
       < SessionStart + len

\* the two entry blocks have cleared the pending breakout on this candle
ClearedOn(side, breakout, order, entry, candle) ==
  /\ breakout # Null
  /\ AfterEntryBlocks(side, breakout, order, entry, candle).breakout = Null

\* the occasions of a clearing: the fill of the entry order on this candle,
\* the closure of the entry time window on the order, and (given as
\* pulledBack) the pullback outside the window
ClearingOccasion(side, breakout, order, entry, candle, pulledBack) ==
  LET inTime == isEntryTimeAllowed(candle.timestamp_readable_IST, config)
  IN /\ breakout # Null
     /\ entry = Null
     /\ \/ AfterEntryBlocks(side, breakout, order, entry, candle).entry # Null
        \/ order # Null /\ SkipOneCandlePassed(len, order) /\ ~inTime
        \/ order = Null /\ pulledBack /\ ~inTime

\* the claim as written, for one direction and one next candle
ClearedExactlyOnTouch(side, breakout, order, entry, candle) ==
  pc = "scan" =>
    (ClearedOn(side, breakout, order, entry, candle) <=>
       ClearingOccasion(side, breakout, order, entry, candle,
         breakout # Null
           /\ TouchesPullback(side, candle, breakout.pullbackEntryPrice)))

\* the same with the pullback the code tests: a touch and a close beyond
ClearedExactlyOnPullback(side, breakout, order, entry, candle) ==
  pc = "scan" =>
    (ClearedOn(side, breakout, order, entry, candle) <=>
       ClearingOccasion(side, breakout, order, entry, candle,
         /\ breakout # Null
         /\ TouchesPullback(side, candle, breakout.pullbackEntryPrice)
         /\ ClosesBeyondPullback(side, candle,
                                 breakout.pullbackEntryPrice)))

\* what holds of a scan step for the pending breakout of one direction: a
\* breakout is registered only with no entry in the direction, and in the
\* place of a pending one only when the window has closed on that one; a
\* pending breakout goes only by a fill or with the window closed
OneBreakoutStep(breakout, breakoutAfter, orderAfter, entry, entryAfter) ==
  ScannedOneCandle =>
    /\ (breakoutAfter # Null /\ breakoutAfter # breakout) =>
          /\ entry = Null
          /\ entryAfter = Null
          /\ breakoutAfter.breakoutDetails.breakoutTime
               = formatTimestamp(Timestamp(len))
          /\ breakout # Null =>
                /\ orderAfter = Null
                /\ ~isEntryTimeAllowed(Timestamp(len), config)
    /\ (breakout # Null /\ breakoutAfter # breakout) =>
          \/ entry = Null /\ entryAfter # Null
          \/ ~isEntryTimeAllowed(Timestamp(len), config)
    /\ entryAfter # Null => breakoutAfter = Null

\* C24 as written: the pending breakout of a direction is cleared exactly
\* on the fill of its entry order, on a candle that touches the pullback
\* level outside the entry time window, or on the closure of the window on
\* its order.
C24_ClearedExactlyOnTouch ==
  \A shape \in CandleShapes :
    /\ ClearedExactlyOnTouch("long", pendingLongBreakout,
                             pendingLongEntryOrder, longEntry,
                             CandleAt(shape, len))
    /\ ClearedExactlyOnTouch("short", pendingShortBreakout,
                             pendingShortEntryOrder, shortEntry,
                             CandleAt(shape, len))

\* C24, amended: a direction has at most one pending breakout; a breakout is
\* never registered in a direction that has its entry, nor while one is
\* pending there (one cleared by the closed window may be replaced on the
\* same candle); the pending breakout is cleared exactly on the fill of its
\* entry order, on a candle outside the entry time window that touches the
\* pullback level and closes strictly beyond it, or on the closure of the
\* window on its order.
C24_OnePendingBreakout ==
  [][/\ \A shape \in CandleShapes :
          /\ ClearedExactlyOnPullback("long", pendingLongBreakout,
                                      pendingLongEntryOrder, longEntry,
                                      CandleAt(shape, len))
          /\ ClearedExactlyOnPullback("short", pendingShortBreakout,
                                      pendingShortEntryOrder, shortEntry,
                                      CandleAt(shape, len))
     /\ OneBreakoutStep(pendingLongBreakout, pendingLongBreakout',
                        pendingLongEntryOrder', longEntry, longEntry')
     /\ OneBreakoutStep(pendingShortBreakout, pendingShortBreakout',
                        pendingShortEntryOrder', shortEntry, shortEntry')
    ]_vars

\* the long entry of the day has filled and cleared its breakout, and a
\* later candle has made a new high, inside the time thresholds and with no
\* volume test to pass, that registered no long breakout
C24_Witness ==
  /\ pc = "scan"
  /\ longEntry # Null
  /\ pendingLongBreakout = Null
  /\ invalidBreakouts = << >>
  /\ ~config.volumeConfirmation.enabled
  /\ parseTimeToMinutes(previousHighTime)
       > FormattedMinutes(longEntry.entry.time)

\* the levels of a breakout follow from its breakout price and its stop
\* under this configuration
HasBreakoutLevels(b, cfg) ==
  LET risk == Abs(b.breakoutPrice - b.stopLoss)
  IN IF b.type = "long"
       THEN /\ b.stopLoss <= b.breakoutPrice
            /\ IsRounded(b.target,
                         b.breakoutPrice + risk * cfg.riskRewardRatio)
            /\ IsRounded(b.pullbackEntryPrice,
                         b.breakoutPrice
                           - (risk * cfg.pullbackPercentage) \div 100)
       ELSE /\ b.stopLoss >= b.breakoutPrice
            /\ IsRounded(b.target,
                         b.breakoutPrice - risk * cfg.riskRewardRatio)
            /\ IsRounded(b.pullbackEntryPrice,
                         b.breakoutPrice
                           + (risk * cfg.pullbackPercentage) \div 100)

\* the prices and the parameters the levels are computed for, beyond those
\* of the runs
LevelLows == {8500, 8800, 9700}
LevelHighs == {9700, 10300, 11500}
LevelRatios == {1, 2, 3}
LevelPullbacks == {10, 50}

\* NewBreakout gives every breakout of the grid its levels
LevelsOnGrid ==
  \A lo \in LevelLows, hi \in LevelHighs :
    \A rr \in LevelRatios, pb \in LevelPullbacks :
      LET cfg == [config EXCEPT !.riskRewardRatio = rr,
                                !.pullbackPercentage = pb]
          long  == NewBreakout("long", hi, lo, 1, CandleAt(Shape(hi, hi, lo,
                                 lo, 1), 1), cfg)
          short == NewBreakout("short", lo, hi, 1, CandleAt(Shape(hi, hi, lo,
                                 lo, 1), 1), cfg)
      IN /\ long.type = "long" /\ short.type = "short"
         /\ IsRounded(long.breakoutPrice, hi)
         /\ IsRounded(long.stopLoss, lo)
         /\ IsRounded(short.breakoutPrice, lo)
         /\ IsRounded(short.stopLoss, hi)
         /\ HasBreakoutLevels(long, cfg)
         /\ HasBreakoutLevels(short, cfg)

\* C25: every registered breakout has for breakout price the rounded
\* previous extreme and for stop the rounded opposite excursion since that
\* extreme, and with risk = |breakoutPrice - stop| it has
\* target = round(breakoutPrice + risk * riskRewardRatio) and
\* pullbackEntryPrice = round(breakoutPrice - risk * pullbackPercentage /
\* 100) when long, and the mirrored signs when short; the breakout an entry
\* order carries has the same levels.
C25_BreakoutLevels ==
  [][/\ pendingLongBreakout # Null =>
          /\ pendingLongBreakout.type = "long"
          /\ HasBreakoutLevels(pendingLongBreakout, config)
     /\ pendingShortBreakout # Null =>
          /\ pendingShortBreakout.type = "short"
          /\ HasBreakoutLevels(pendingShortBreakout, config)
     /\ pendingLongEntryOrder # Null =>
          HasBreakoutLevels(pendingLongEntryOrder.breakoutInfo, config)
     /\ pendingShortEntryOrder # Null =>
          HasBreakoutLevels(pendingShortEntryOrder.breakoutInfo, config)
     /\ (ScannedOneCandle /\ pendingLongBreakout' # Null
           /\ pendingLongBreakout' # pendingLongBreakout) =>
          /\ IsRounded(pendingLongBreakout'.breakoutPrice, previousHighPrice)
          /\ IsRounded(pendingLongBreakout'.stopLoss,
                       Min2(lowestSinceLastHigh, lowestSinceLastHigh'))
     /\ (ScannedOneCandle /\ pendingShortBreakout' # Null
           /\ pendingShortBreakout' # pendingShortBreakout) =>
          /\ IsRounded(pendingShortBreakout'.breakoutPrice, previousLowPrice)
          /\ IsRounded(pendingShortBreakout'.stopLoss,
                       Max2(highestSinceLastLow, highestSinceLastLow'))
     /\ (pc = "dates" /\ dateIndex = 1) => LevelsOnGrid]_vars

\* a long and a short breakout are pending at once, each with a target, a
\* stop and a pullback level apart from its breakout price
C25_Witness ==
  /\ pc = "scan"
  /\ pendingLongBreakout # Null
  /\ pendingShortBreakout # Null
  /\ pendingLongBreakout.target > pendingLongBreakout.breakoutPrice
  /\ pendingLongBreakout.stopLoss < pendingLongBreakout.pullbackEntryPrice
  /\ pendingShortBreakout.target < pendingShortBreakout.breakoutPrice
  /\ pendingShortBreakout.stopLoss > pendingShortBreakout.pullbackEntryPrice

\* the indexes of the candles, lookbackPeriod of them at most, right before
\* the candle at index pre
LookbackOf(pre) ==
  {j \in 0..(pre - 1) : j >= pre - config.volumeConfirmation.lookbackPeriod}

\* the sum of the volumes of the candles read so far at these indexes
RECURSIVE VolumeOver(_)
VolumeOver(indexes) ==
  IF indexes = {} THEN 0
  ELSE LET j == CHOOSE k \in indexes : TRUE
       IN dayData[j].volume + VolumeOver(indexes \ {j})

\* the volume of the candle before the next one is above (strictly, or at
\* least) volumeMultiplier times the average volume over its lookback
PreBreakoutVolumeExceeds ==
  dayData[len - 1].volume * Cardinality(LookbackOf(len - 1))
    > VolumeOver(LookbackOf(len - 1))
        * config.volumeConfirmation.volumeMultiplier

PreBreakoutVolumeAtLeast ==
  dayData[len - 1].volume * Cardinality(LookbackOf(len - 1))
    >= VolumeOver(LookbackOf(len - 1))
         * config.volumeConfirmation.volumeMultiplier

\* the scan step has registered a breakout, or has ended the day on a
\* breakout whose stop loss is too tight: the new extreme was time-valid and
\* has passed the volume confirmation
PassedVolumeConfirmation ==
  /\ pc = "scan"
  /\ config.volumeConfirmation.enabled
  /\ \/ /\ ScannedOneCandle
        /\ \/ /\ pendingLongBreakout' # Null
              /\ pendingLongBreakout' # pendingLongBreakout
           \/ /\ pendingShortBreakout' # Null
              /\ pendingShortBreakout' # pendingShortBreakout
     \/ /\ pc' = "dates"
        /\ RecordedOutcome.message
             = "Breakout detected but stop loss too tight"

\* C26 as written: with volume confirmation enabled, a breakout at candle i
\* is registered only if the volume of candle i-1 exceeds volumeMultiplier
\* times the average volume of the lookbackPeriod candles, or as many as
\* there are, right before candle i-1.
C26_VolumeExceedsThreshold ==
  [][PassedVolumeConfirmation => PreBreakoutVolumeExceeds]_vars

\* C26, amended: with volume confirmation enabled, a breakout at candle i is
\* registered only if the volume of candle i-1 is at least volumeMultiplier
\* times the average volume of the lookbackPeriod candles, or as many as
\* there are, right before candle i-1 (the threshold is 0 when there are
\* none); a new extreme that fails the test registers nothing and does not
\* end the day.
C26_VolumeAtLeastThreshold ==
  [][PassedVolumeConfirmation => PreBreakoutVolumeAtLeast]_vars

\* with volume confirmation enabled a breakout is pending that was
\* registered on the last candle scanned, after a pre-breakout candle that
\* had a candle before it and whose volume is the multiplier itself: no more
\* than the threshold, every volume being 1 or more
C26_Witness ==
  /\ pc = "scan"
  /\ config.volumeConfirmation.enabled
  /\ len >= 3
  /\ \/ /\ pendingLongBreakout # Null
        /\ pendingLongBreakout.breakoutDetails.breakoutTime
             = formatTimestamp(Timestamp(len - 1))
     \/ /\ pendingShortBreakout # Null
        /\ pendingShortBreakout.breakoutDetails.breakoutTime
             = formatTimestamp(Timestamp(len - 1))
  /\ (len - 2) \in DOMAIN dayData
  /\ dayData[len - 2].volume = config.volumeConfirmation.volumeMultiplier


(***************************************************************************)
(* C27                                                                     *)
(***************************************************************************)
\* a number of the statistics that is neither NaN nor infinite
IsFiniteNumber(v) == DOMAIN v \cap {"nan", "infinite"} = {}

\* the averages and percentages of the per-mechanism summaries that were
\* produced
AnalysisNumbers(s) ==
  (IF s.stopLossExitAnalysis = Null THEN {}
   ELSE {s.stopLossExitAnalysis.averageProfitDynamicStopLossExits,
         s.stopLossExitAnalysis.averageProfitCircuitBreakerExits,
         s.stopLossExitAnalysis.averageStopLossPriceUpdates})
  \cup (IF s.targetExitAnalysis = Null THEN {}
        ELSE {s.targetExitAnalysis.targetLimitOrderFillRate,
              s.targetExitAnalysis.averageProfitTargetLimitOrderExits,
              s.targetExitAnalysis.averageTargetPriceUpdates})
  \cup (IF s.preMarketExitAnalysis = Null THEN {}
        ELSE {s.preMarketExitAnalysis.preMarketOrderFillRate,
              s.preMarketExitAnalysis.averageProfitPreMarketExits,
              s.preMarketExitAnalysis.averageProfitForcedExits,
              s.preMarketExitAnalysis.averagePriceUpdatesPerTrade,
              s.preMarketExitAnalysis.dynamicPricingFillRate})
  \cup (IF s.entryOrderAnalysis = Null THEN {}
        ELSE {s.entryOrderAnalysis.entryOrderFillRate,
              s.entryOrderAnalysis.averageEntryPriceUpdates,
              s.entryOrderAnalysis.averageEntryPriceImprovement,
              s.entryOrderAnalysis.dynamicEntryPricingFillRate})

\* the averages and percentages over all the trades
TradeAverages(s) ==
  {s.averageProfitPerTrade, s.averageGrossProfitPerTrade,
   s.averageNetProfitPerTrade, s.averageProfitPercentagePerTrade,
   s.averageGrossProfitPercentagePerTrade,
   s.averageNetProfitPercentagePerTrade, s.winRate,
   s.riskRewardAnalysis.winRate, s.riskRewardAnalysis.actualAverageRR}

\* every average and percentage of the statistics
StatNumbers(s) ==
  TradeAverages(s) \cup AnalysisNumbers(s)
    \cup {s.totalReturnPercentage, s.totalGrossReturnPercentage,
          s.totalNetReturnPercentage}
    \cup {s.statisticsByExitReason[r].averageProfit :
            r \in DOMAIN s.statisticsByExitReason}

\* the statistics but for the average of profit / (riskPoints * shares)
GuardedStatNumbers(s) ==
  StatNumbers(s) \ {s.riskRewardAnalysis.actualAverageRR}

\* the returned statistics count no trade
NoTradeCounted == stats.totalWinningDays + stats.totalLosingDays = 0

\* a recorded trade whose riskPoints * shares is 0
HasRisklessTrade ==
  \E n \in 1..Len(allTrades) :
    /\ IsActualTrade(allTrades[n])
    /\ allTrades[n].riskPoints * allTrades[n].shares = 0

\* C27: no NaN or infinite value reaches the statistics calculateStats
\* returns: every percentage and average of it is a finite number, and the
\* averages over the trades are 0 when there is no trade.
C27_DivisionByZeroGuard ==
  pc = "done" =>
    /\ \A v \in StatNumbers(stats) : IsFiniteNumber(v)
    /\ NoTradeCounted => \A v \in TradeAverages(stats) : v.num = 0

\* what does hold: every average and percentage but actualAverageRR is
\* finite with the capital of the configurations, and the averages over the
\* trades are 0 when there is no trade
C27_GuardedAverages ==
  pc = "done" =>
    /\ \A v \in GuardedStatNumbers(stats) : IsFiniteNumber(v)
    /\ NoTradeCounted => \A v \in TradeAverages(stats) : v = Number(0)

\* the backtest returned statistics over a trade whose riskPoints * shares
\* is 0
C27_Witness == pc = "done" /\ HasRisklessTrade

(***************************************************************************)
(* C28                                                                     *)
(***************************************************************************)
\* the summaries of the stop-loss, target and pre-close exits are there
\* exactly when their flag is set
ExitAnalysesFollowFlags ==
  /\ stats.stopLossExitAnalysis # Null <=> config.stopLossExitConfig.enabled
  /\ stats.targetExitAnalysis # Null <=> config.targetExitConfig.enabled
  /\ stats.preMarketExitAnalysis # Null <=> config.marketExitTime.enabled

\* C28: each per-mechanism summary of the returned statistics is non-null
\* exactly when the flag of its mechanism is true: stopLossExitAnalysis with
\* stopLossExitConfig.enabled, targetExitAnalysis with
\* targetExitConfig.enabled, preMarketExitAnalysis with
\* marketExitTime.enabled, entryOrderAnalysis with entryOrderConfig.enabled.
C28_SummariesFollowFlags ==
  pc = "done" =>
    /\ ExitAnalysesFollowFlags
    /\ stats.entryOrderAnalysis # Null <=> config.entryOrderConfig.enabled

\* what does hold: the three exit summaries follow their flags, and the
\* entry order summary is there exactly when a trade was made
C28_EntryOrderSummaryFollowsTrades ==
  pc = "done" =>
    /\ ExitAnalysesFollowFlags
    /\ stats.entryOrderAnalysis # Null
         <=> stats.totalWinningDays + stats.totalLosingDays > 0

\* the backtest returned an entry order summary although
\* entryOrderConfig.enabled is false
C28_Witness ==
  /\ pc = "done"
  /\ ~config.entryOrderConfig.enabled
  /\ stats.entryOrderAnalysis # Null

\* the backtest returned no entry order summary although
\* entryOrderConfig.enabled is true
C28_WitnessNoSummary ==
  /\ pc = "done"
  /\ config.entryOrderConfig.enabled
  /\ stats.entryOrderAnalysis = Null

(***************************************************************************)
(* C29                                                                     *)
(***************************************************************************)
\* the trades among the recorded outcomes, in their order
RecordedTrades == SelectSeq(allTrades, IsTradeResult)

RangeOf(list) == {list[n] : n \in 1..Len(list)}

\* C29: winRate is 100 * (number of trades with net profit > 0) / (number
\* of trades) and 0 when there is no trade; winningDays are the trades with
\* net profit > 0 and losingDays the trades with net profit <= 0, so every
\* trade is in exactly one of them and no other outcome is in either.
C29_WinRatePartition ==
  pc = "done" =>
    LET won == SelectSeq(RecordedTrades, LAMBDA t : t.netProfit > 0)
        lost == SelectSeq(RecordedTrades, LAMBDA t : t.netProfit <= 0)
    IN /\ stats.winRate =
            IF RecordedTrades = << >> THEN Number(0)
            ELSE [num |-> Len(won), den |-> Len(RecordedTrades),
                  times |-> 100]
       /\ stats.winningDays = won
       /\ stats.losingDays = lost
       /\ stats.totalWinningDays = Len(won)
       /\ stats.totalLosingDays = Len(lost)
       /\ \A t \in RangeOf(RecordedTrades) :
            (t \in RangeOf(stats.winningDays))
              # (t \in RangeOf(stats.losingDays))
       /\ \A o \in Outcomes :
            ~IsTradeResult(o) =>
              o \notin RangeOf(stats.winningDays)
                         \cup RangeOf(stats.losingDays)

\* statistics over a winning trade, a trade with a net profit of 0 or less
\* and a day without a trade
C29_Witness ==
  /\ pc = "done"
  /\ stats.totalWinningDays = 1
  /\ stats.totalLosingDays = 1
  /\ Len(allTrades) = 3
  /\ stats.winRate = [num |-> 1, den |-> 2, times |-> 100]

\* statistics over outcomes none of which is a trade
C29_WitnessNoTrade ==
  /\ pc = "done"
  /\ allTrades # << >>
  /\ RecordedTrades = << >>
  /\ stats.winRate = Number(0)

(***************************************************************************)
(* C30                                                                     *)
(***************************************************************************)
\* the sum of a field of the groups of statisticsByExitReason
RECURSIVE SumOverGroups(_, _, _)
SumOverGroups(groups, reasons, field) ==
  IF reasons = {} THEN 0
  ELSE LET reason == CHOOSE r \in reasons : TRUE
       IN groups[reason][field]
            + SumOverGroups(groups, reasons \ {reason}, field)

\* C30: statisticsByExitReason has one group per exit reason of a trade; the
\* counts of the groups sum to the number of trades, their totalProfit
\* values sum to totalNetProfit, each group counts the trades with its
\* reason, and its averageProfit is totalProfit / count.
C30_ExitReasonPartition ==
  pc = "done" =>
    LET groups == stats.statisticsByExitReason
    IN /\ DOMAIN groups = {t.exit.reason : t \in RangeOf(RecordedTrades)}
       /\ SumOverGroups(groups, DOMAIN groups, "count") = Len(RecordedTrades)
       /\ SumOverGroups(groups, DOMAIN groups, "totalProfit")
            = stats.totalNetProfit
       /\ \A reason \in DOMAIN groups :
            /\ groups[reason].count =
                 Len(SelectSeq(RecordedTrades,
                               LAMBDA t : t.exit.reason = reason))
            /\ groups[reason].count > 0
            /\ groups[reason].averageProfit =
                 [num |-> groups[reason].totalProfit,
                  den |-> groups[reason].count, times |-> 1]

\* statistics over three trades in two groups, one of them of two trades
\* with different profits
C30_Witness ==
  /\ pc = "done"
  /\ Len(RecordedTrades) = 3
  /\ Cardinality(DOMAIN stats.statisticsByExitReason) = 2
  /\ \E reason \in DOMAIN stats.statisticsByExitReason :
       /\ stats.statisticsByExitReason[reason].count = 2
       /\ \E t \in RangeOf(RecordedTrades) :
            /\ t.exit.reason = reason
            /\ 2 * t.netProfit
                 # stats.statisticsByExitReason[reason].totalProfit

(***************************************************************************)
(* C31                                                                     *)
(***************************************************************************)
\* splitIntoChunks has returned
ChunksReturned == numChunks > 0 /\ chunkIndex = numChunks

\* the chunks one after the other
RECURSIVE Concatenation(_)
Concatenation(lists) ==
  IF lists = << >> THEN << >>
  ELSE Head(lists) \o Concatenation(Tail(lists))

\* C31: splitIntoChunks(combinations, n) puts every combination in exactly
\* one chunk: the chunks are pairwise disjoint, their concatenation in order
\* is the input list, no chunk is empty and there are at most n chunks.
C31_DisjointChunks ==
  ChunksReturned =>
    /\ Concatenation(chunks) = combinations
    /\ Len(chunks) <= numChunks
    /\ \A k \in 1..Len(chunks) : chunks[k] # << >>
    /\ \A j, k \in 1..Len(chunks) :
         j # k => RangeOf(chunks[j]) \cap RangeOf(chunks[k]) = {}
    /\ \A c \in RangeOf(combinations) :
         Cardinality({k \in 1..Len(chunks) : c \in RangeOf(chunks[k])}) = 1

\* a split into fewer chunks than asked for, the last one shorter than the
\* first
C31_Witness ==
  /\ ChunksReturned
  /\ Len(chunks) >= 2
  /\ Len(chunks) < numChunks
  /\ Len(chunks[Len(chunks)]) < Len(chunks[1])

(***************************************************************************)
(* C32                                                                     *)
(***************************************************************************)
\* the scan of the day holds a filled entry
EntryHeld == longEntry # Null \/ shortEntry # Null

\* this step records the outcome of the day
RecordsOutcome == Len(allTrades') = Len(allTrades) + 1

\* a step of the day of a filled entry goes on with the day or records the
\* result of the trade
KeepsPosition ==
  (pc \in {"scan", "simulate", "exit"} /\ (pc = "scan" => EntryHeld)) =>
    /\ pc' \in {"scan", "simulate", "exit", "dates"}
    /\ pc = "scan" => pc' \in {"scan", "simulate"}
    /\ pc' = "scan" => EntryHeld'
    /\ RecordsOutcome => IsTradeResult(RecordedOutcome)

\* C32: once an entry order has filled during the scan of a day, the outcome
\* recorded for the day is the result of a trade; no later candle of the
\* scan turns the day into a record without a trade.
C32_FilledPositionKept == [][KeepsPosition]_vars

\* the scan holds a filled entry and the next step records a rejection for a
\* stop loss that is too tight
DiscardsPosition ==
  /\ pc = "scan"
  /\ EntryHeld
  /\ RecordsOutcome
  /\ IsMinimumStopLossRejection(RecordedOutcome)

\* what does hold: a scan that holds a filled entry ends in the simulation
\* of the trade or in the rejection of a later breakout for its stop loss
C32_KeptUnlessRejection == [][KeepsPosition \/ DiscardsPosition]_vars

\* a day whose scan held a filled entry for at least one candle and whose
\* simulation has recorded the result of the trade
C32_Witness ==
  /\ pc = "dates"
  /\ allTrades # << >>
  /\ IsTradeResult(allTrades[Len(allTrades)])
  /\ CandleIndexOf(allTrades[Len(allTrades)].entry.time) < MaxCandles - 1

(***************************************************************************)
(* C33                                                                     *)
(***************************************************************************)
\* the stop loss, the entry price and the target of the entry are in the
\* order of its direction
LevelsOrdered(t) ==
  IF t.type = "long"
  THEN t.stopLoss < t.entry.price /\ t.entry.price < t.target
  ELSE t.target < t.entry.price /\ t.entry.price < t.stopLoss

\* C33: every entry handed to simulateTrade has its stop loss, entry price
\* and target in the order of its direction (stop loss < entry < target for
\* a long entry, target < entry < stop loss for a short one), so its
\* riskPoints are positive.
C33_PositionLevelsOrdered ==
  trade # Null => LevelsOrdered(trade) /\ RiskPoints(trade) > 0

\* what does hold: the target of every entry handed to simulateTrade is
\* beyond its entry price
C33_TargetBeyondEntry ==
  trade # Null =>
    IF trade.type = "long" THEN trade.entry.price < trade.target
                           ELSE trade.target < trade.entry.price

\* an entry in either direction is being simulated with its levels in order
C33_Witness ==
  /\ pc = "simulate"
  /\ trade # Null
  /\ LevelsOrdered(trade)
  /\ RiskPoints(trade) > 0


(***************************************************************************)
(* C34                                                                     *)
(***************************************************************************)
\* entry orders have filled in both directions during the scan of the day
BothFilled == longEntry # Null /\ shortEntry # Null

\* the candle on which the entry filled
FillCandle(entry) == CandleIndexOf(entry.entry.time)

\* this step ends the scan of a day with both entries filled and hands one
\* of them to simulateTrade
HandsOverOneOfBoth == pc = "scan" /\ BothFilled /\ pc' = "simulate"

\* C34: when entry orders have filled in both directions during the scan of
\* a day, the entry handed to simulateTrade is the one that filled on the
\* earlier candle.
C34_EarliestFillTraded ==
  [][HandsOverOneOfBoth =>
       /\ FillCandle(shortEntry) < FillCandle(longEntry) => trade' = shortEntry
       /\ FillCandle(longEntry) < FillCandle(shortEntry) => trade' = longEntry
    ]_vars

\* what does hold: when both entries have filled, the long entry is the one
\* handed to simulateTrade, whichever filled first
C34_LongFillTraded == [][HandsOverOneOfBoth => trade' = longEntry]_vars

\* the last candle of the day is scanned and both entries have filled on
\* different candles, the short one first
C34_Witness ==
  /\ pc = "scan"
  /\ len = Len(tape)
  /\ BothFilled
  /\ FillCandle(shortEntry) < FillCandle(longEntry)


(***************************************************************************)
(* C35                                                                     *)
(***************************************************************************)
\* the trades that calculateStats has counted
CountedTrades == SelectSeq(allTrades, IsActualTrade)

\* a counted trade left at its entry price and paid fees
HasFlatTradeWithFees ==
  \E n \in 1..Len(CountedTrades) :
    CountedTrades[n].grossProfit = 0 /\ CountedTrades[n].totalFees # 0

\* C35: the statistics have totalNetProfit = totalGrossProfit - totalFees
\* and finalBalance = capital.initial + totalNetProfit, also when the gross
\* or the net profit of a trade is exactly 0.
C35_AggregateProfitIdentity ==
  stats # Null =>
    /\ stats.totalNetProfit = stats.totalGrossProfit - stats.totalFees
    /\ stats.finalBalance =
         config.capital.initial * MoneyScale + stats.totalNetProfit

\* what does hold: the final balance is the initial capital plus the total
\* net profit, and the total net profit is the total gross profit less the
\* total fees unless a counted trade left at its entry price and paid fees
C35_IdentityUnlessFlatTrade ==
  stats # Null =>
    /\ stats.finalBalance =
         config.capital.initial * MoneyScale + stats.totalNetProfit
    /\ ~HasFlatTradeWithFees =>
         stats.totalNetProfit = stats.totalGrossProfit - stats.totalFees

\* statistics over at least two trades that paid fees, none of which left
\* at its entry price
C35_Witness ==
  /\ stats # Null
  /\ Len(CountedTrades) >= 2
  /\ stats.totalFees > 0
  /\ ~HasFlatTradeWithFees
  /\ stats.totalNetProfit = stats.totalGrossProfit - stats.totalFees


(***************************************************************************)
(* C36                                                                     *)
(***************************************************************************)
\* the price lies within the range of the candle
WithinCandle(price, candle) == candle.low <= price /\ price <= candle.high

\* this step of the scan fills the entry order of a direction on the candle
\* it reads
FillsLongEntry  == pc = "scan" /\ longEntry = Null /\ longEntry' # Null
FillsShortEntry == pc = "scan" /\ shortEntry = Null /\ shortEntry' # Null

\* this step of the simulation fills the target, stop loss or pre-close
\* limit order on the candle it reads
FillsExitOrder ==
  /\ pc = "simulate"
  /\ pc' = "exit"
  /\ exitReason' \in { Reason("target limit order filled"),
                       Reason("stop loss limit order filled"),
                       Reason("pre-market exit limit order filled") }

\* the entry fills of this step are within the candle
EntryFillsWithinCandle ==
  /\ FillsLongEntry => WithinCandle(longEntry'.entry.price, dayData'[len])
  /\ FillsShortEntry => WithinCandle(shortEntry'.entry.price, dayData'[len])

\* the exit fill of this step is within the candle
ExitFillWithinCandle ==
  FillsExitOrder => WithinCandle(exitPrice', dayData[i])

\* C36: whenever an entry, target, stop loss or pre-close limit order fills
\* on a candle, the fill price lies within the low and the high of that
\* candle.
C36_FillWithinCandle ==
  [][EntryFillsWithinCandle /\ ExitFillWithinCandle]_vars

\* what does hold: the candle of a fill reaches the price of the order from
\* the side the order waits on (its low is at or under the price of a buy
\* order, its high at or over the price of a sell order; every exit order
\* of a long trade sells and every exit order of a short trade buys)
C36_FillCandleReachesPrice ==
  [][/\ FillsLongEntry => dayData'[len].low <= longEntry'.entry.price
     /\ FillsShortEntry => dayData'[len].high >= shortEntry'.entry.price
     /\ FillsExitOrder =>
          IF trade.type = "long" THEN dayData[i].high >= exitPrice'
                                 ELSE dayData[i].low <= exitPrice'
    ]_vars

\* an exit order has filled at a price within its candle
C36_Witness ==
  /\ pc = "exit"
  /\ exitReason \in { Reason("target limit order filled"),
                      Reason("stop loss limit order filled"),
                      Reason("pre-market exit limit order filled") }
  /\ i \in DOMAIN dayData
  /\ WithinCandle(exitPrice, dayData[i])


(***************************************************************************)
(* C39                                                                     *)
(***************************************************************************)
\* how many of breakoutsWithoutEntry, breakoutsOutsideTimeRange and
\* minimumStopLossRejections count this outcome
NonTradeCountersOf(o) ==
  (IF IsBreakoutWithoutEntry(o) THEN 1 ELSE 0)
    + (IF IsBreakoutOutsideTimeRange(o) THEN 1 ELSE 0)
    + (IF IsMinimumStopLossRejection(o) THEN 1 ELSE 0)

\* C39: no outcome is counted by more than one of breakoutsWithoutEntry,
\* breakoutsOutsideTimeRange and minimumStopLossRejections, so the three
\* counters and the number of trades add up to at most the number of days.
C39_DisjointCounters ==
  stats # Null =>
    /\ \A n \in 1..Len(allTrades) : NonTradeCountersOf(allTrades[n]) <= 1
    /\ stats.breakoutsWithoutEntry + stats.breakoutsOutsideTimeRange
         + stats.minimumStopLossRejections + Len(CountedTrades)
           <= Len(allTrades)

\* what does hold: every outcome counted by minimumStopLossRejections is
\* counted by breakoutsWithoutEntry too; breakoutsWithoutEntry,
\* breakoutsOutsideTimeRange and the trades are disjoint
C39_RejectionsAreBreakoutsWithoutEntry ==
  stats # Null =>
    /\ \A n \in 1..Len(allTrades) :
         LET o == allTrades[n]
         IN /\ IsMinimumStopLossRejection(o) => IsBreakoutWithoutEntry(o)
            /\ ~(IsBreakoutWithoutEntry(o) /\ IsBreakoutOutsideTimeRange(o))
            /\ IsActualTrade(o) =>
                 ~IsBreakoutWithoutEntry(o) /\ ~IsBreakoutOutsideTimeRange(o)
    /\ stats.breakoutsWithoutEntry + stats.breakoutsOutsideTimeRange
         + Len(CountedTrades) <= Len(allTrades)

\* statistics over a day rejected for its stop loss
C39_Witness ==
  /\ stats # Null
  /\ stats.minimumStopLossRejections >= 1


(***************************************************************************)
(* C37                                                                     *)
(***************************************************************************)
\* the workers the main thread has created
StartedWorkers == {w \in 1..numWorkers : workers[w].state # "not started"}

\* every worker has ended and the main thread has handled every message and
\* event
AllHandled ==
  \A w \in 1..numWorkers :
    workers[w].state # "running" /\ inbox[w] = << >>

\* a 'results' message that the main thread has not merged yet
HasUnmergedResults ==
  \E w \in 1..numWorkers :
    \E k \in 1..Len(inbox[w]) : inbox[w][k].type = "results"

\* C37: whatever the order of the workers' 'progress', 'results', 'error'
\* and 'exit' events, checkCompletion produces the final report exactly
\* once, and no 'results' message of a worker is merged after the report.
C37_ReportOnceAfterAllResults ==
  /\ Len(reports) <= 1
  /\ AllHandled => Len(reports) = 1
  /\ reports # << >> => ~HasUnmergedResults

\* what does hold: the final report is produced exactly once, on the event
\* that brings completedWorkers to the number of workers
C37_ReportOnceAtWorkerCount ==
  /\ Len(reports) <= 1
  /\ AllHandled => Len(reports) = 1
  /\ reports # << >> <=> completedWorkers >= numWorkers

\* every event of two workers or more is handled and the one report was
\* made from the results of all of them
C37_Witness ==
  /\ AllHandled
  /\ Cardinality(StartedWorkers) >= 2
  /\ Len(reports) = 1
  /\ reports[1].merged = StartedWorkers
  /\ reports[1].written


(***************************************************************************)
(* C38                                                                     *)
(***************************************************************************)
\* the profits of the valid configurations of all the chunks
ValidProfits ==
  {workers[p[1]].combinations[p[2]].profit :
     p \in {q \in (1..Len(workers)) \X (1..MaxSearchLen) :
              /\ q[2] <= Len(workers[q[1]].combinations)
              /\ workers[q[1]].combinations[q[2]].valid}}

\* the greatest of these profits
GreatestProfit(profits) ==
  CHOOSE p \in profits : \A q \in profits : ~ProfitGreater(q, p)

\* the promise of every worker has resolved
AllResolved == resolved = 1..Len(workers)

\* C38: whatever the order of the workers' messages, the profit of
\* globalBestResult never decreases, and once the promise of every worker
\* has resolved it is the greatest of its initial value and the profits of
\* the valid configurations of all the workers.
C38_RunningBestIsMaximum ==
  [][/\ ~ProfitGreater(globalBestResult.profit, globalBestResult'.profit)
     /\ AllResolved' =>
          globalBestResult'.profit =
            GreatestProfit(ValidProfits \cup {existingBest.profit})
    ]_vars

\* the search of two workers or more has returned a best that beats the
\* existing one, and a configuration with too few trades had a greater
\* profit
C38_Witness ==
  /\ Len(workers) >= 2
  /\ reports # << >>
  /\ ~reports[1].thrown
  /\ existingBest.profit = Number(1)
  /\ reports[1].returned.profit = Number(2)
  /\ \E n \in 1..Len(combinations) : combinations[n].profit = Number(3)

====
